---- MODULE Spec2Model ----
(***************************************************************************)
(* A model of io_dif: the DIF reader/writer (libdif), the interior builder *)
(* (libdifbuilder/src/builder.rs) and its BSP construction (bsp.rs).       *)
(*                                                                         *)
(* Numbers.  An f32 is the triple <<s, m, e>> of its sign, significand and *)
(* exponent, and the arithmetic on it rounds as IEEE-754 binary32 does, so *)
(* that every comparison against an epsilon sees the value the program     *)
(* sees.  A Point3F is <<x, y, z>>.  Positions the code counts from 0 keep *)
(* their 0-based values; the model adds 1 where it indexes a sequence.     *)
(***************************************************************************)
EXTENDS Integers, Sequences, FiniteSets, TLC

\* ------------------------------------------------------------------ bounds
\* Longest sequence of direct export_plane / export_emit_string calls.
MaxCalls == 3

\* Longest sequence of clip_plane calls on one polygon.
MaxClips == 2

\* ------------------------------------------------------- program constants
\* export_plane: the flag of a flipped plane index, and the table limit.
FLIPPED == 32768

PLANE_LIMIT == 65536

VARIABLES
    builder,    \* the DIFBuilder under construction
    twin,       \* a second, independent DIFBuilder (another run)
    calls,      \* log of the direct export_* calls made so far
    brush,      \* the BSPPolygon handed to clip_plane
    clips,      \* log of the clip_plane calls made on brush
    pc,         \* position of the caller: adding triangles, in build, done
    input,      \* the triangles the caller has still to add
    split_method, \* BSP_CONFIG.split_method
    MB_ONLY,    \* the static MB_ONLY that set_convert_configuration writes
    bsp,        \* build_bsp: the tree under construction and its plane list
    rerun,      \* build_bsp run a second time on the same brushes
    rating,     \* one calc_plane_rating evaluation: its workers and their set
    written,    \* the value handed to a Writable / expected of a Readable
    wire,       \* the bytes of the buffer that are still to be read
    got,        \* what the last read returned
    exporting,  \* export_convex_hull: the hull of one group being exported
    poly_list,  \* process_hull_poly_lists: the winding of one surface
    listener    \* ConsoleProgressListener: its channel, thread and bars

vars == <<builder, twin, calls, brush, clips, pc, input, split_method, MB_ONLY, bsp,
         rerun, rating, written, wire, got, exporting, poly_list, listener>>

exportVars == <<builder, twin, calls>>

clipVars == <<brush, clips>>

buildVars == <<pc, input, split_method, MB_ONLY, bsp, rerun>>

ratingVars == <<rating>>

ioVars == <<written, wire, got>>

hullVars == <<exporting, poly_list>>

progressVars == <<listener>>

\* The member of a set of one element.  {F(x) : x \in {e}} is F(e) with e
\* worked out first, which is how a loop hands its state from one turn to
\* the next.
Only(S) == CHOOSE v \in S : TRUE

\* --------------------------------------------------------------------- f32
\* A finite f32 is <<s, m, e>>: value (-1)^s * m * 2^e with
\* 2^23 <= m < 2^24, or m = 0 = e for the two zeros.  Every operation
\* rounds to nearest, ties to even.  The infinities are <<s, 2^23, 105>>
\* (the exponent field 255) and a NaN has that exponent with a larger
\* significand.  Subnormals and overflow lie outside the inputs used here.
\* Number of bits of x, for 0 <= x < 2^31.
BitLen(x) ==
    IF x < 65536
    THEN IF x < 256
         THEN IF x < 16
              THEN IF x < 4 THEN (IF x < 2 THEN x ELSE 2)
                   ELSE (IF x < 8 THEN 3 ELSE 4)
              ELSE IF x < 64 THEN (IF x < 32 THEN 5 ELSE 6)
                   ELSE (IF x < 128 THEN 7 ELSE 8)
         ELSE IF x < 4096
              THEN IF x < 1024 THEN (IF x < 512 THEN 9 ELSE 10)
                   ELSE (IF x < 2048 THEN 11 ELSE 12)
              ELSE IF x < 16384 THEN (IF x < 8192 THEN 13 ELSE 14)
                   ELSE (IF x < 32768 THEN 15 ELSE 16)
    ELSE IF x < 16777216
         THEN IF x < 1048576
              THEN IF x < 262144 THEN (IF x < 131072 THEN 17 ELSE 18)
                   ELSE (IF x < 524288 THEN 19 ELSE 20)
              ELSE IF x < 4194304 THEN (IF x < 2097152 THEN 21 ELSE 22)
                   ELSE (IF x < 8388608 THEN 23 ELSE 24)
         ELSE IF x < 268435456
              THEN IF x < 67108864 THEN (IF x < 33554432 THEN 25 ELSE 26)
                   ELSE (IF x < 134217728 THEN 27 ELSE 28)
              ELSE IF x < 1073741824 THEN (IF x < 536870912 THEN 29 ELSE 30)
                   ELSE 31

\* Rounding of the significand q with remainder r below it (half is the
\* weight of a tie); sticky says that a non-zero part below r was dropped.
FRound(s, q, r, half, e, sticky) ==
    IF r > half \/ (r = half /\ (sticky \/ q % 2 = 1))
    THEN (IF q + 1 = 16777216 THEN <<s, 8388608, e + 1>> ELSE <<s, q + 1, e>>)
    ELSE <<s, q, e>>

\* The f32 nearest to (-1)^s * x * 2^e for x # 0 of k bits.
FPackK(s, x, e, sticky, k) ==
    IF k <= 24 THEN <<s, x * 2^(24 - k), e - (24 - k)>>
    ELSE FRound(s, x \div 2^(k - 24), x % 2^(k - 24), 2^(k - 25), e + (k - 24), sticky)

\* The f32 nearest to (-1)^s * x * 2^e.
FPack(s, x, e, sticky) ==
    IF x = 0 THEN <<s, 0, 0>> ELSE FPackK(s, x, e, sticky, BitLen(x))

\* n as f32, for an integer |n| < 2^31.
FInt(n) == FPack(IF n < 0 THEN 1 ELSE 0, IF n < 0 THEN -n ELSE n, 0, FALSE)

F_INFINITY == <<0, 8388608, 105>>

F_NAN == <<0, 12582912, 105>>

IsNaN(a) == a[3] = 105 /\ a[2] # 8388608

IsInf(a) == a[3] = 105 /\ a[2] = 8388608

FNeg(a) == <<1 - a[1], a[2], a[3]>>

FAbs(a) == <<0, a[2], a[3]>>

MagLt(a, b) ==
    IF b[2] = 0 THEN FALSE
    ELSE IF a[2] = 0 THEN TRUE
    ELSE a[3] < b[3] \/ (a[3] = b[3] /\ a[2] < b[2])

\* a < b; the two zeros compare equal.
FLt(a, b) ==
    IF IsNaN(a) \/ IsNaN(b) THEN FALSE
    ELSE IF a[2] = 0 /\ b[2] = 0 THEN FALSE
    ELSE IF a[1] # b[1] THEN a[1] = 1
    ELSE IF a[1] = 0 THEN MagLt(a, b) ELSE MagLt(b, a)

FLe(a, b) == ~FLt(b, a)

\* f32::min and f32::max: a NaN operand yields the other operand.
FMin(a, b) == IF IsNaN(a) THEN b ELSE IF FLt(b, a) THEN b ELSE a

FMax(a, b) == IF IsNaN(a) THEN b ELSE IF FLt(a, b) THEN b ELSE a

\* f32::total_cmp(a, b) = Less: -0.0 sorts below +0.0.
TotalLt(a, b) ==
    IF a[1] # b[1] THEN a[1] = 1
    ELSE IF a[1] = 0 THEN MagLt(a, b) ELSE MagLt(b, a)

\* f32::total_cmp as -1 (Less), 0 (Equal), 1 (Greater).
total_cmp(a, b) == IF TotalLt(a, b) THEN -1 ELSE IF TotalLt(b, a) THEN 1 ELSE 0

\* hi + lo once the significands are aligned: A and B carry three guard
\* bits, sticky the bits of lo shifted out.
FAddAligned(hi, lo, A, B, sticky) ==
    IF hi[1] = lo[1] THEN FPack(hi[1], A + B, hi[3] - 3, sticky)
    ELSE IF A = B /\ ~sticky THEN <<0, 0, 0>>
    ELSE IF A < B THEN FPack(lo[1], B - A, hi[3] - 3, FALSE)
    ELSE FPack(hi[1], A - B - (IF sticky THEN 1 ELSE 0), hi[3] - 3, sticky)

\* hi + lo for non-zero operands with hi's exponent the larger.
FAddOrd(hi, lo) ==
    IF hi[3] - lo[3] > 27 THEN hi
    ELSE FAddAligned(hi, lo, hi[2] * 8, (lo[2] * 8) \div 2^(hi[3] - lo[3]),
                     (lo[2] * 8) % 2^(hi[3] - lo[3]) # 0)

\* a + b with an infinite or NaN operand.
FAddSpecial(a, b) ==
    IF IsNaN(a) \/ IsNaN(b) THEN F_NAN
    ELSE IF a[3] = 105 /\ b[3] = 105 THEN (IF a[1] = b[1] THEN a ELSE F_NAN)
    ELSE IF a[3] = 105 THEN a ELSE b

FAdd(a, b) ==
    IF a[3] = 105 \/ b[3] = 105 THEN FAddSpecial(a, b)
    ELSE IF a[2] = 0 /\ b[2] = 0 THEN <<IF a[1] = 1 /\ b[1] = 1 THEN 1 ELSE 0, 0, 0>>
    ELSE IF a[2] = 0 THEN b
    ELSE IF b[2] = 0 THEN a
    ELSE IF a[3] >= b[3] THEN FAddOrd(a, b) ELSE FAddOrd(b, a)

FSub(a, b) == FAdd(a, FNeg(b))

\* The product H * 2^24 + L of two significands, rounded.
FMulHL(s, e, H, L) ==
    IF H >= 8388608 THEN FRound(s, H, L, 8388608, e + 24, FALSE)
    ELSE FRound(s, 2 * H + L \div 8388608, L % 8388608, 4194304, e + 23, FALSE)

\* The 48-bit product of the significands from the products of their
\* 12-bit halves: hh * 2^24 + mid * 2^12 + ll.
FMulParts(s, e, hh, mid, ll) ==
    FMulHL(s, e, hh + mid \div 4096 + (ll + (mid % 4096) * 4096) \div 16777216,
           (ll + (mid % 4096) * 4096) % 16777216)

\* a * b with an infinite or NaN operand.
FMulSpecial(a, b) ==
    IF IsNaN(a) \/ IsNaN(b) \/ a[2] = 0 \/ b[2] = 0 THEN F_NAN
    ELSE <<(a[1] + b[1]) % 2, 8388608, 105>>

FMul(a, b) ==
    IF a[3] = 105 \/ b[3] = 105 THEN FMulSpecial(a, b)
    ELSE IF a[2] = 0 \/ b[2] = 0 THEN <<(a[1] + b[1]) % 2, 0, 0>>
    ELSE FMulParts((a[1] + b[1]) % 2, a[3] + b[3],
                   (a[2] \div 4096) * (b[2] \div 4096),
                   (a[2] \div 4096) * (b[2] % 4096) + (a[2] % 4096) * (b[2] \div 4096),
                   (a[2] % 4096) * (b[2] % 4096))

\* Seven more quotient bits of r / den by long division (r < den < 2^24).
DivBits(qr, den) ==
    <<qr[1] * 128 + (qr[2] * 128) \div den, (qr[2] * 128) % den>>

\* The quotient bits qr[1] with remainder qr[2], rounded.
FDivQ(s, e, qr) == FPack(s, qr[1], e, qr[2] # 0)

\* a / b with an infinite, NaN or zero operand.
FDivSpecial(a, b) ==
    IF IsNaN(a) \/ IsNaN(b) \/ (a[3] = 105 /\ b[3] = 105) \/ (a[2] = 0 /\ b[2] = 0)
    THEN F_NAN
    ELSE IF a[3] = 105 \/ b[2] = 0 THEN <<(a[1] + b[1]) % 2, 8388608, 105>>
    ELSE <<(a[1] + b[1]) % 2, 0, 0>>

FDiv(a, b) ==
    IF a[3] = 105 \/ b[3] = 105 \/ b[2] = 0 THEN FDivSpecial(a, b)
    ELSE IF a[2] = 0 THEN <<(a[1] + b[1]) % 2, 0, 0>>
    ELSE FDivQ((a[1] + b[1]) % 2, a[3] - b[3] - 28,
               DivBits(DivBits(DivBits(DivBits(<<a[2] \div b[2], a[2] % b[2]>>,
                                               b[2]), b[2]), b[2]), b[2]))

\* One more pair of bits of the square root of m by the digit-by-digit
\* method: rr = <<root, remainder>>, pair k of the 26 pairs (the last 13
\* are zero) comes in.
SqrtStep(rr, pair) ==
    IF rr[2] * 4 + pair >= rr[1] * 4 + 1
    THEN <<rr[1] * 2 + 1, rr[2] * 4 + pair - (rr[1] * 4 + 1)>>
    ELSE <<rr[1] * 2, rr[2] * 4 + pair>>

\* The bits lo .. hi of the root of the 26-bit-pair number m * 4^13, most
\* significant pair first, from the pair <<root, remainder>> rr of the bits
\* before lo.
RECURSIVE SqrtBits(_, _, _, _)
SqrtBits(rr, m, lo, hi) ==
    IF lo = hi
    THEN SqrtStep(rr, IF lo <= 13 THEN (m \div 4^(13 - lo)) % 4 ELSE 0)
    ELSE Only({SqrtBits(left, m, ((lo + hi) \div 2) + 1, hi) :
                  left \in {SqrtBits(rr, m, lo, (lo + hi) \div 2)}})

FSqrtQ(e, rr) == FPack(0, rr[1], e, rr[2] # 0)

\* f32::sqrt.
FSqrt(a) ==
    IF a[2] = 0 THEN a
    ELSE IF a[1] = 1 \/ IsNaN(a) THEN F_NAN
    ELSE IF a[3] = 105 THEN a
    ELSE IF a[3] % 2 = 0 THEN FSqrtQ(a[3] \div 2 - 13, SqrtBits(<<0, 0>>, a[2], 1, 26))
    ELSE FSqrtQ((a[3] - 1) \div 2 - 13, SqrtBits(<<0, 0>>, a[2] * 2, 1, 26))

\* The f32 literal n/d, e.g. 1e-4 = FDec(1, 10000).
FDec(n, d) == FDiv(FInt(n), FInt(d))

\* f32::floor.
FFloor(a) ==
    IF a[2] = 0 \/ a[3] >= 0 THEN a
    ELSE IF a[3] <= -24 THEN (IF a[1] = 0 THEN <<0, 0, 0>> ELSE FInt(-1))
    ELSE IF a[1] = 0 \/ a[2] % 2^(-a[3]) = 0
    THEN FPack(a[1], a[2] \div 2^(-a[3]), 0, FALSE)
    ELSE FPack(1, a[2] \div 2^(-a[3]) + 1, 0, FALSE)

\* `x as u32`: truncation, negative values saturating at 0 (the values
\* converted here stay below 2^31).
FAsU32(a) ==
    IF a[1] = 1 \/ a[2] = 0 \/ a[3] <= -24 THEN 0
    ELSE IF a[3] >= 0 THEN a[2] * 2^a[3]
    ELSE a[2] \div 2^(-a[3])

\* approx::AbsDiffEq for f32.
abs_diff_eq(a, b, eps) == FLe(FAbs(FSub(a, b)), eps)

\* BSP_CONFIG.epsilon, POINT_EPSILON and PLANE_EPSILON.
EPSILON == FDec(1, 10000)

POINT_EPSILON == FDec(1, 1000000)

PLANE_EPSILON == FDec(1, 100000)

\* ---------------------------------------------------------------- Point3F
\* The point with integer coordinates.
Pt(x, y, z) == <<FInt(x), FInt(y), FInt(z)>>

VAdd(p, q) == <<FAdd(p[1], q[1]), FAdd(p[2], q[2]), FAdd(p[3], q[3])>>

VSub(p, q) == <<FSub(p[1], q[1]), FSub(p[2], q[2]), FSub(p[3], q[3])>>

VScale(p, t) == <<FMul(p[1], t), FMul(p[2], t), FMul(p[3], t)>>

\* cgmath dot product: x*x + y*y + z*z, summed left to right.
Dot(p, q) == FAdd(FAdd(FMul(p[1], q[1]), FMul(p[2], q[2])), FMul(p[3], q[3]))

\* cgmath cross product and magnitude.
Cross(p, q) ==
    <<FSub(FMul(p[2], q[3]), FMul(p[3], q[2])),
      FSub(FMul(p[3], q[1]), FMul(p[1], q[3])),
      FSub(FMul(p[1], q[2]), FMul(p[2], q[1]))>>

Magnitude(p) == FSqrt(Dot(p, p))

\* vector / scalar, component by component.
VDiv(p, t) == <<FDiv(p[1], t), FDiv(p[2], t), FDiv(p[3], t)>>

\* PlaneF { normal, distance }.
PlaneF(n, d) == [normal |-> n, distance |-> d]

\* normal *= -1.0; distance *= -1.0
PlaneNeg(pl) == PlaneF(VScale(pl.normal, FInt(-1)), FMul(pl.distance, FInt(-1)))

\* dot(plane.normal, pt) + plane.distance
PlaneDot(pl, pt) == FAdd(Dot(pl.normal, pt), pl.distance)

\* --------------------------------------------------------------- DIFBuilder
\* empty_interior(): every vector empty, coord_bins included.
empty_interior ==
    [ detail_level |-> 0, min_pixels |-> 250,
      bounding_box |-> [min |-> Pt(0, 0, 0), max |-> Pt(0, 0, 0)],
      bounding_sphere |-> [origin |-> Pt(0, 0, 0), radius |-> FInt(0)],
      has_alarm_state |-> 0, num_light_state_entries |-> 0,
      normals |-> <<>>, planes |-> <<>>, points |-> <<>>,
      point_visibilities |-> <<>>, tex_gen_eqs |-> <<>>, bsp_nodes |-> <<>>,
      bsp_solid_leaves |-> <<>>, material_names |-> <<>>, indices |-> <<>>,
      winding_indices |-> <<>>, edges |-> <<>>, zones |-> <<>>,
      zone_surfaces |-> <<>>, zone_static_meshes |-> <<>>,
      zone_portal_lists |-> <<>>, portals |-> <<>>, surfaces |-> <<>>,
      edge2s |-> <<>>, normal2s |-> <<>>, normal_indices |-> <<>>,
      normal_lmap_indices |-> <<>>, alarm_lmap_indices |-> <<>>,
      null_surfaces |-> <<>>, light_maps |-> <<>>,
      solid_leaf_surfaces |-> <<>>, animated_lights |-> <<>>,
      light_states |-> <<>>, state_datas |-> <<>>,
      state_data_buffers |-> <<>>, flags |-> 0,
      name_buffer_characters |-> <<>>, sub_objects |-> <<>>,
      convex_hulls |-> <<>>, convex_hull_emit_string_characters |-> <<>>,
      hull_indices |-> <<>>, hull_plane_indices |-> <<>>,
      hull_emit_string_indices |-> <<>>, hull_surface_indices |-> <<>>,
      poly_list_plane_indices |-> <<>>, poly_list_point_indices |-> <<>>,
      poly_list_string_characters |-> <<>>, coord_bins |-> <<>>,
      coord_bin_indices |-> <<>>, coord_bin_mode |-> 0,
      base_ambient_color |-> <<0, 0, 0, 255>>,
      alarm_ambient_color |-> <<0, 0, 0, 255>>,
      static_meshes |-> <<>>, tex_normals |-> <<>>, tex_matrices |-> <<>>,
      tex_matrix_indices |-> <<>>, extended_light_map_data |-> 0,
      light_map_border_size |-> 0 ]

\* DIFBuilder::new(mb_only).  A HashMap is kept as the sequence of its
\* entries [key, val] in insertion order.
DIFBuilder_new(mb_only) ==
    [ brushes |-> <<>>, interior |-> empty_interior,
      face_to_surface |-> <<>>, face_to_plane |-> <<>>, plane_map |-> <<>>,
      point_map |-> <<>>, normal_map |-> <<>>, texgen_map |-> <<>>,
      emit_string_map |-> <<>>, mb_only |-> mb_only,
      bsp_report |-> [balance_factor |-> 0, hit |-> 0, total |-> 0,
                      hit_area_percentage |-> FInt(0)] ]

\* No tree: build_bsp has not been called.
NoTree ==
    [nodes |-> <<>>, stack |-> <<>>, plane_list |-> <<>>, used_planes |-> {},
     progress |-> <<>>, ok |-> TRUE]

\* No build is under way: the state of the variables of build where only
\* single exporters or clip_plane are called.
NoBuild ==
    /\ pc = "idle"
    /\ input = <<>>
    /\ split_method = "Fast"
    /\ MB_ONLY = TRUE
    /\ bsp = NoTree
    /\ rerun = NoTree

\* No calc_plane_rating is being evaluated.
NoRating == rating = [plane_id |-> 0, brush_list |-> <<>>, plane_list |-> <<>>,
                      considered_planes |-> {}, at |-> <<>>, out |-> <<>>,
                      value |-> <<>>]

\* No hull is being exported.
NoHull ==
    /\ exporting = [pc |-> "none"]
    /\ poly_list = [pc |-> "none"]

\* No progress thread runs.
NoProgress == listener = [pc |-> "none"]

\* Nothing is being written or read.
NoIO ==
    /\ written = [kind |-> "none"]
    /\ wire = <<>>
    /\ got = [state |-> "none"]

\* impl PartialEq for OrdPoint: abs_diff_eq on every coordinate.
OrdPoint_eq(p, q) ==
    /\ abs_diff_eq(p[1], q[1], POINT_EPSILON)
    /\ abs_diff_eq(p[2], q[2], POINT_EPSILON)
    /\ abs_diff_eq(p[3], q[3], POINT_EPSILON)

\* impl Hash for OrdPoint: ((floor(c) as u32) >> 5) & 0xf per coordinate.
HashCoord(c) == (FAsU32(FFloor(c)) \div 32) % 16

OrdPoint_hash(p) == HashCoord(p[1]) * 256 + HashCoord(p[2]) * 16 + HashCoord(p[3])

\* impl PartialEq for OrdPlaneF: dot of the normals > 0.999 and the
\* distances within PLANE_EPSILON.  Not reflexive when |normal|^2 <= 0.999.
OrdPlaneF_eq(p, q) ==
    /\ FLt(FDec(999, 1000), Dot(p.normal, q.normal))
    /\ abs_diff_eq(p.distance, q.distance, PLANE_EPSILON)

\* (a * 100.0 + 0.5).floor() / 100.0
Round2(a) == FDiv(FFloor(FAdd(FMul(a, FInt(100)), FDec(1, 2))), FInt(100))

\* impl Hash for OrdPlaneF: built from absolute values, so a plane and its
\* negation hash alike.
OrdPlaneF_hash(p) ==
    FAsU32(FMul(Round2(FMax(FMax(FAbs(p.normal[1]), FAbs(p.normal[2])),
                            FAbs(p.normal[3]))),
                Round2(FAbs(p.distance)))) % 4096

\* HashMap<OrdPlaneF, _>::get: the entries whose key hashes like k and
\* compares equal to it.  (With an Eq that disagrees with Hash the table
\* may also probe entries of another hash; the planes used here have equal
\* hashes whenever they compare equal.)
PlaneMapFind(map, k) ==
    {i \in 1..Len(map) : OrdPlaneF_hash(map[i].key) = OrdPlaneF_hash(k)
                            /\ OrdPlaneF_eq(map[i].key, k)}

\* HashMap<OrdPoint, _>::get.
PointMapFind(map, k) ==
    {i \in 1..Len(map) : OrdPoint_hash(map[i].key) = OrdPoint_hash(k)
                            /\ OrdPoint_eq(map[i].key, k)}

\* The entry a lookup returns (the palettes used leave at most one).
MapFirst(found) == CHOOSE i \in found : \A j \in found : i <= j

\* export_plane_push when a new normal is entered in normal_map but not
\* pushed to normals.
export_plane_push_without_normal(b, plane, isnew, nidx) ==
    [b |-> [b EXCEPT
              !.interior.planes = Append(@, [normal_index |-> nidx,
                                             plane_distance |-> plane.distance]),
              !.normal_map = IF isnew
                             THEN Append(@, [key |-> plane.normal, val |-> nidx])
                             ELSE @,
              !.plane_map = Append(@, [key |-> plane,
                                       val |-> Len(b.interior.planes)])],
     ret |-> Len(b.interior.planes)]

\* export_plane for a plane found neither directly nor flipped: nidx is the
\* index of its normal, isnew says that the normal is added too.
export_plane_push(b, plane, isnew, nidx) ==
    [b |-> [b EXCEPT
              !.interior.normals = IF isnew THEN Append(@, plane.normal) ELSE @,
              !.interior.normal2s = IF isnew /\ ~b.mb_only
                                    THEN Append(@, plane.normal) ELSE @,
              !.interior.planes = Append(@, [normal_index |-> nidx,
                                             plane_distance |-> plane.distance]),
              !.normal_map = IF isnew
                             THEN Append(@, [key |-> plane.normal, val |-> nidx])
                             ELSE @,
              !.plane_map = Append(@, [key |-> plane,
                                       val |-> Len(b.interior.planes)])],
     ret |-> Len(b.interior.planes)]

\* export_plane after its lookups: direct and inv are the entries of
\* plane_map found for the plane and for its negation, nfound the entries
\* of normal_map found for its normal.
export_plane_found(b, plane, direct, inv, nfound) ==
    IF direct # {} THEN [b |-> b, ret |-> b.plane_map[MapFirst(direct)].val]
    ELSE IF inv # {}
    THEN [b |-> b,
          ret |-> IF b.plane_map[MapFirst(inv)].val >= FLIPPED
                  THEN b.plane_map[MapFirst(inv)].val
                  ELSE b.plane_map[MapFirst(inv)].val + FLIPPED]
    ELSE export_plane_push(b, plane, nfound = {},
                           IF nfound = {} THEN Len(b.interior.normals)
                           ELSE b.normal_map[MapFirst(nfound)].val)

\* DIFBuilder::export_plane.  Returns the builder after the call and the
\* PlaneIndex; ret = -1 stands for the failed assertion on the table size.
export_plane(b, plane) ==
    IF Len(b.interior.planes) >= PLANE_LIMIT THEN [b |-> b, ret |-> -1]
    ELSE export_plane_found(b, plane, PlaneMapFind(b.plane_map, plane),
                            PlaneMapFind(b.plane_map, PlaneNeg(plane)),
                            PointMapFind(b.normal_map, plane.normal))

\* export_emit_string without the lookup in emit_string_map: every call
\* appends a copy.
export_emit_string_always_append(b, string) ==
    [b |-> [b EXCEPT !.interior.convex_hull_emit_string_characters = @ \o string],
     ret |-> Len(b.interior.convex_hull_emit_string_characters)]

\* DIFBuilder::export_emit_string: the index is the length of the character
\* buffer at the first export of the string.
export_emit_string(b, string) ==
    LET index == Len(b.interior.convex_hull_emit_string_characters)
        found == {i \in 1..Len(b.emit_string_map) : b.emit_string_map[i].key = string}
    IN  IF found # {}
        THEN [b |-> b, ret |-> b.emit_string_map[MapFirst(found)].val]
        ELSE [b |-> [b EXCEPT
                       !.emit_string_map = Append(@, [key |-> string, val |-> index]),
                       !.interior.convex_hull_emit_string_characters = @ \o string],
              ret |-> index]

\* ------------------------------------------- direct calls of the exporters
\* Planes handed to export_plane: axis planes and their exact negations, a
\* slanted unit plane, and the plane add_triangle derives from a zero
\* normal (add_triangle takes the normal as supplied).
PlanePalette ==
    { PlaneF(Pt(0, 0, 1), FInt(0)), PlaneNeg(PlaneF(Pt(0, 0, 1), FInt(0))),
      PlaneF(Pt(0, 0, 1), FInt(-1)), PlaneNeg(PlaneF(Pt(0, 0, 1), FInt(-1))),
      PlaneF(<<FDec(3, 5), FDec(4, 5), FInt(0)>>, FInt(-2)),
      PlaneF(Pt(0, 0, 0), FInt(0)) }

\* Emit strings handed to export_emit_string.
StringPalette == { <<1>>, <<2>>, <<1, 2>> }

InitExport ==
    /\ builder = DIFBuilder_new(TRUE)
    /\ twin = DIFBuilder_new(TRUE)
    /\ calls = <<>>
    /\ brush = <<>>
    /\ clips = <<>>
    /\ NoBuild
    /\ NoRating
    /\ NoIO
    /\ NoHull
    /\ NoProgress

\* One call builder.export_plane(plane).
ExportPlaneCall ==
    /\ Len(calls) < MaxCalls
    /\ \E plane \in PlanePalette :
         \E r \in {export_plane(builder, plane)} :
             /\ builder' = r.b
             /\ calls' = Append(calls,
                   [op |-> "export_plane", on |-> "builder", arg |-> plane,
                    ret |-> r.ret,
                    before |-> Len(builder.interior.planes),
                    after |-> Len(r.b.interior.planes)])
    /\ UNCHANGED <<twin, clipVars, buildVars, ratingVars, ioVars, hullVars, progressVars>>

\* One call export_emit_string(string) on either builder.
ExportEmitStringCall ==
    /\ Len(calls) < MaxCalls
    /\ \E string \in StringPalette, on \in {"builder", "twin"} :
         \E this \in {IF on = "builder" THEN builder ELSE twin} :
         \E r \in {export_emit_string(this, string)} :
             /\ builder' = IF on = "builder" THEN r.b ELSE builder
             /\ twin' = IF on = "twin" THEN r.b ELSE twin
             /\ calls' = Append(calls,
                   [op |-> "export_emit_string", on |-> on, arg |-> string,
                    ret |-> r.ret,
                    before |-> Len(this.interior.convex_hull_emit_string_characters),
                    after |-> Len(r.b.interior.convex_hull_emit_string_characters)])
    /\ UNCHANGED <<clipVars, buildVars, ratingVars, ioVars, hullVars, progressVars>>

NextExport == ExportPlaneCall \/ ExportEmitStringCall

SpecExport == InitExport /\ [][NextExport]_vars

PlaneCalls == {i \in 1..Len(calls) : calls[i].op = "export_plane"}

StringCalls == {i \in 1..Len(calls) : calls[i].op = "export_emit_string"}

\* C5 (as stated): export_plane called twice with the same plane returns
\* the same index and adds no second entry to planes; called with the exact
\* negation of a plane that has its own entry in planes it returns that
\* entry's index with 0x8000 set and adds no entry.
C5_ExportPlaneTwice ==
    \A i \in PlaneCalls : \A j \in PlaneCalls :
        i < j =>
          /\ calls[j].arg = calls[i].arg =>
               calls[j].ret = calls[i].ret /\ calls[j].after = calls[j].before
          /\ (calls[j].arg = PlaneNeg(calls[i].arg) /\ calls[i].after > calls[i].before) =>
               calls[j].ret = calls[i].ret + FLIPPED /\ calls[j].after = calls[j].before

\* C6 (as stated): the index export_emit_string returns is a function of the
\* string alone: equal strings get equal indices in any two calls, whatever
\* was exported before them and in whichever builder.
C6_IndexFunctionOfStringAlone ==
    \A i \in StringCalls : \A j \in StringCalls :
        calls[i].arg = calls[j].arg => calls[i].ret = calls[j].ret

\* C6 (amended): within one builder, equal strings collapse: every export
\* of a string returns the index of its first export, which is the length
\* of convex_hull_emit_string_characters at that moment, and only the first
\* export appends the string (once) to the buffer.
C6_StringsCollapse ==
    \A j \in StringCalls :
        LET same == {i \in StringCalls : i < j /\ calls[i].on = calls[j].on
                                           /\ calls[i].arg = calls[j].arg}
        IN  IF same = {}
            THEN /\ calls[j].ret = calls[j].before
                 /\ calls[j].after = calls[j].before + Len(calls[j].arg)
            ELSE /\ \A i \in same : calls[j].ret = calls[i].ret
                 /\ calls[j].after = calls[j].before

\* A string exported twice by the same builder after another string.
C6_Witness ==
    \E i \in StringCalls : \E j \in StringCalls :
        /\ i < j /\ calls[i].on = calls[j].on /\ calls[i].arg = calls[j].arg
        /\ calls[i].ret > 0

\* ---------------------------------------------------------------- BSPPolygon
\* The point where the edge v1 -> v2 meets the plane:
\* t = (-distance - normal.v1) / normal.(v2 - v1); v3 = v1 + (v2 - v1) * t.
Intersect(pl, v1, v2) ==
    VAdd(v1, VScale(VSub(v2, v1),
                    FDiv(FSub(FNeg(pl.distance), Dot(pl.normal, v1)),
                         Dot(pl.normal, VSub(v2, v1)))))

\* clip_plane's test for a vertex to keep: d1 <= epsilon.
ClipKeeps(d1) == FLe(d1, EPSILON)

\* clip_plane's test for an edge that crosses the plane.
ClipCrosses(d1, d2) ==
    \/ FLt(EPSILON, d1) /\ FLt(d2, FNeg(EPSILON))
    \/ FLt(d1, FNeg(EPSILON)) /\ FLt(EPSILON, d2)

\* One pass of clip_plane's loop, for the edge v1 -> v2 whose first vertex
\* has index idx and whose ends lie at d1 and d2 from the plane: acc holds
\* new_vertices and new_indices so far.
ClipEdge(pv, idx, v1, v2, d1, d2, acc) ==
    [vertices |-> IF ClipCrosses(d1, d2)
                  THEN Append(acc.vertices, Intersect(pv, v1, v2))
                  ELSE acc.vertices,
     indices |-> (IF ClipKeeps(d1) THEN Append(acc.indices, idx) ELSE acc.indices)
                 \o (IF ClipCrosses(d1, d2) THEN <<Len(acc.vertices)>> ELSE <<>>)]

\* The vertex of the polygon at position i of its index list, cyclically.
PolyVertex(self, i) == self.vertices[self.indices[(i % Len(self.indices)) + 1] + 1]

\* BSPPolygon::area: the triangles v0, v_i, v_(i+1) for i = 1 .. len - 1, the
\* last of them closing on v0.
RECURSIVE AreaLoop(_, _)
AreaLoop(self, i) ==
    IF i = 0 THEN FInt(0)
    ELSE FAdd(AreaLoop(self, i - 1),
              FDiv(Magnitude(Cross(VSub(PolyVertex(self, i), PolyVertex(self, 0)),
                                   VSub(PolyVertex(self, i + 1), PolyVertex(self, 0)))),
                   FInt(2)))

area(self) ==
    IF Len(self.indices) < 2 THEN FInt(0) ELSE AreaLoop(self, Len(self.indices) - 1)

\* self.area_calc = self.area()
WithArea(self) == [self EXCEPT !.area_calc = area(self)]

\* The loop of clip_plane over the edges i, i+1, ... of the polygon.
RECURSIVE ClipLoop(_, _, _, _)
ClipLoop(self, pv, i, acc) ==
    IF i >= Len(self.indices) THEN acc
    ELSE ClipLoop(self, pv, i + 1,
           ClipEdge(pv, self.indices[i + 1], PolyVertex(self, i), PolyVertex(self, i + 1),
                    FAdd(Dot(PolyVertex(self, i), pv.normal), pv.distance),
                    FAdd(Dot(PolyVertex(self, i + 1), pv.normal), pv.distance),
                    acc))

\* The sanity check at the end of clip_plane on the result r of the loop:
\* ok is FALSE when a kept vertex has d > epsilon * 10.0 and the assert
\* panics; self is then left as it was.
ClipSanity(self, pv, r) ==
    IF \E k \in 1..Len(r.indices) :
          FLt(FMul(EPSILON, FInt(10)), PlaneDot(pv, r.vertices[r.indices[k] + 1]))
    THEN [poly |-> self, ok |-> FALSE]
    ELSE [poly |-> WithArea([self EXCEPT !.vertices = r.vertices,
                                          !.indices = r.indices]),
          ok |-> TRUE]

\* clip_plane against plane_value.
ClipAgainst(self, pv) ==
    ClipSanity(self, pv, ClipLoop(self, pv, 0, [vertices |-> self.vertices,
                                                 indices |-> <<>>]))

\* BSPPolygon::clip_plane(plane, plane_list, flip_face).
clip_plane(self, plane, plane_list, flip_face) ==
    ClipAgainst(self, IF flip_face THEN PlaneNeg(plane_list[plane + 1])
                      ELSE plane_list[plane + 1])

\* A triangle as build_bsp turns it into a BSPPolygon.
BSPPolygon(id, verts, plane, plane_id) ==
    WithArea([id |-> id, plane |-> plane, plane_id |-> plane_id,
              indices |-> <<0, 1, 2>>, vertices |-> verts, used_plane |-> FALSE,
              inverted_plane |-> FALSE, area_calc |-> FInt(0)])

\* ------------------------------------------------- direct calls of clip_plane
\* plane_list of the clip harness: z = 0, x = 0, a slanted unit plane, a
\* plane half an epsilon above z = 0, and the slanted plane 1000 units out.
ClipPlaneList ==
    << PlaneF(Pt(0, 0, 1), FInt(0)), PlaneF(Pt(1, 0, 0), FInt(0)),
       PlaneF(<<FDec(3, 5), FDec(4, 5), FInt(0)>>, FInt(-1)),
       PlaneF(Pt(0, 0, 1), FDec(-1, 20000)),
       PlaneF(<<FDec(3, 5), FDec(4, 5), FInt(0)>>, FInt(-1000)) >>

\* Triangles of the clip harness, each with the plane it lies in: three a
\* few units across and one several thousand units across.
ClipPolygons ==
    { BSPPolygon(0, <<Pt(-2, 0, -1), Pt(2, 0, -1), Pt(0, 0, 3)>>,
                 PlaneF(Pt(0, 1, 0), FInt(0)), 5),
      BSPPolygon(1, <<Pt(1, -2, 0), Pt(1, 2, -1), Pt(1, 0, 2)>>,
                 PlaneF(Pt(1, 0, 0), FInt(-1)), 6),
      BSPPolygon(2, <<Pt(2, 1, -1), Pt(-2, 4, 1), Pt(6, -2, 2)>>,
                 PlaneF(<<FDec(3, 5), FDec(4, 5), FInt(0)>>, FInt(-2)), 7),
      BSPPolygon(3, <<Pt(7000, -7000, 0), Pt(-4000, 5000, 0), Pt(0, 0, 0)>>,
                 PlaneF(Pt(0, 0, 1), FInt(0)), 0) }

InitClip ==
    /\ builder = DIFBuilder_new(TRUE)
    /\ twin = DIFBuilder_new(TRUE)
    /\ calls = <<>>
    /\ brush \in ClipPolygons
    /\ clips = <<>>
    /\ NoBuild
    /\ NoRating
    /\ NoIO
    /\ NoHull
    /\ NoProgress

\* One call brush.clip_plane(plane, plane_list, flip_face); a panic ends
\* the sequence of calls.
ClipPlaneCall ==
    /\ Len(clips) < MaxClips
    /\ (clips # <<>>) => clips[Len(clips)].ok
    /\ \E plane \in 0..(Len(ClipPlaneList) - 1), flip_face \in BOOLEAN :
         \E r \in {clip_plane(brush, plane, ClipPlaneList, flip_face)} :
             /\ brush' = r.poly
             /\ clips' = Append(clips,
                   [plane |-> plane, flip_face |-> flip_face, ok |-> r.ok,
                    before |-> brush, after |-> r.poly])
    /\ UNCHANGED <<exportVars, buildVars, ratingVars, ioVars, hullVars, progressVars>>

NextClip == ClipPlaneCall

SpecClip == InitClip /\ [][NextClip]_vars

\* The plane a logged clip_plane call clipped against.
ClipPlaneUsed(c) ==
    IF c.flip_face THEN PlaneNeg(ClipPlaneList[c.plane + 1])
    ELSE ClipPlaneList[c.plane + 1]

\* C10 (as stated): the sanity assertion of clip_plane never fails, and
\* after the call every vertex in the polygon's index list, an original
\* vertex or a new intersection point, has dot(P.n, v) + P.d <= 10 * epsilon
\* for the clip plane P used (flip_face false or true).
C10_ClipKeepsBackSide ==
    \A k \in 1..Len(clips) :
        LET c == clips[k]
        IN  /\ c.ok
            /\ \A i \in 1..Len(c.after.indices) :
                  FLe(PlaneDot(ClipPlaneUsed(c), c.after.vertices[c.after.indices[i] + 1]),
                      FMul(EPSILON, FInt(10)))

\* ------------------------------------------------------------ add_triangle
\* DIFBuilder::add_triangle: the plane is derived from the supplied normal,
\* distance = -norm.dot(v1); the id is the position in brushes.
add_triangle(b, v1, v2, v3, uv1, uv2, uv3, norm, material) ==
    [b EXCEPT !.brushes =
        Append(@, [verts |-> <<v1, v2, v3>>,
                   plane |-> PlaneF(norm, FNeg(Dot(norm, v1))),
                   uv |-> <<uv1, uv2, uv3>>,
                   material |-> material,
                   id |-> Len(b.brushes)])]

\* -------------------------------------------------------- bounding volumes
VMin(p, q) == <<FMin(p[1], q[1]), FMin(p[2], q[2]), FMin(p[3], q[3])>>

VMax(p, q) == <<FMax(p[1], q[1]), FMax(p[2], q[2]), FMax(p[3], q[3])>>

\* The vertices of the triangles ts: brushes.iter().flat_map(|t| &t.verts).
FlatVerts(ts) ==
    SubSeq([i \in 1..(3 * Len(ts)) |-> ts[((i - 1) \div 3) + 1].verts[((i - 1) % 3) + 1]],
           1, 3 * Len(ts))

\* BoxF::from_vertices over the first n of the vertices vs: starts from
\* (INFINITY, NEG_INFINITY) and takes min and max vertex by vertex.
union_point(box, p) == [min |-> VMin(box.min, p), max |-> VMax(box.max, p)]

\* The loop over the vertices lo .. hi.
RECURSIVE UnionRange(_, _, _, _)
UnionRange(box, vs, lo, hi) ==
    IF lo > hi THEN box
    ELSE IF lo = hi THEN union_point(box, vs[lo])
    ELSE Only({UnionRange(left, vs, ((lo + hi) \div 2) + 1, hi) :
                  left \in {UnionRange(box, vs, lo, (lo + hi) \div 2)}})

from_vertices(vs, n) ==
    UnionRange([min |-> <<F_INFINITY, F_INFINITY, F_INFINITY>>,
                max |-> <<FNeg(F_INFINITY), FNeg(F_INFINITY), FNeg(F_INFINITY)>>],
               vs, 1, n)

get_bounding_box(brushes) == from_vertices(FlatVerts(brushes), 3 * Len(brushes))

\* BoxF::center and BoxF::extent.
center(box) == VDiv(VAdd(box.min, box.max), FInt(2))

extent(box) == VSub(box.max, box.min)

\* SphereF { origin: b.center(), radius: (b.max - b.center()).magnitude() }
SphereOf(b) == [origin |-> center(b), radius |-> Magnitude(VSub(b.max, center(b)))]

get_bounding_sphere(brushes) == SphereOf(get_bounding_box(brushes))

\* bounding_box.min -= (3, 3, 3); bounding_box.max += (3, 3, 3)
Padded(box) == [min |-> VSub(box.min, Pt(3, 3, 3)), max |-> VAdd(box.max, Pt(3, 3, 3))]

\* ------------------------------------------------------------- 16 x 16 grid
\* min + (i as f32 * extent / 16f32): the lower bound of cell i, and the
\* upper bound of cell i - 1.
CellBound(minv, ext, i) == FAdd(minv, FDiv(FMul(FInt(i), ext), FInt(16)))

\* The 17 bounds of the 16 cells along one axis; entry i + 1 is bound i.
CellBounds(minv, ext) == SubSeq([i \in 1..17 |-> CellBound(minv, ext, i - 1)], 1, 17)

\* !(min_x > o.max_x || max_x < o.min_x || min_y > o.max_y || max_y < o.min_y)
\* for the cell (i, j) and an object with the xy extent lo .. hi.
Overlaps(xs, ys, i, j, lo, hi) ==
    ~(\/ FLt(hi[1], xs[i + 1])
      \/ FLt(xs[i + 2], lo[1])
      \/ FLt(hi[2], ys[j + 1])
      \/ FLt(ys[j + 2], lo[2]))

\* The members of the set S of numbers in ascending order.
Ascending(S) ==
    SubSeq([i \in 1..Cardinality(S) |->
               CHOOSE x \in S : Cardinality({y \in S : y < x}) = i - 1],
           1, Cardinality(S))

\* ------------------------------------------------------------- group_polys
\* poly_min and poly_max of a triangle.
PolyMin(t) == VMin(VMin(t.verts[1], t.verts[2]), t.verts[3])

PolyMax(t) == VMax(VMax(t.verts[1], t.verts[2]), t.verts[3])

\* 2.0 * (dx * dy + dy * dz + dz * dx) for the box extent d.
AreaOf(d) ==
    FMul(FInt(2), FAdd(FAdd(FMul(d[1], d[2]), FMul(d[2], d[3])), FMul(d[3], d[1])))

\* PolyGroup::surface_area.
surface_area(g) == AreaOf(VSub(g.max, g.min))

\* PolyGroup::surface_area_if_add.
surface_area_if_add(g, t) ==
    FSub(AreaOf(VSub(VMax(VMax(VMax(g.max, t.verts[1]), t.verts[2]), t.verts[3]),
                     VMin(VMin(VMin(g.min, t.verts[1]), t.verts[2]), t.verts[3]))),
         surface_area(g))

\* PolyGroup::add_polygon.
add_polygon(g, t, poly_idx) ==
    [min |-> VMin(VMin(VMin(g.min, t.verts[1]), t.verts[2]), t.verts[3]),
     max |-> VMax(VMax(VMax(g.max, t.verts[1]), t.verts[2]), t.verts[3]),
     polys |-> Append(g.polys, poly_idx)]

\* The cost of adding t to each group, then the cost of a group of its own.
Costs(groups, t) ==
    SubSeq([k \in 1..(Len(groups) + 1) |->
               IF k <= Len(groups) THEN surface_area_if_add(groups[k], t)
               ELSE AreaOf(VSub(PolyMax(t), PolyMin(t)))],
           1, Len(groups) + 1)

\* costs.iter().enumerate().max_by(total_cmp): the position (from 0) of the
\* last of the largest costs.
MaxPos(costs) ==
    (CHOOSE k \in 1..Len(costs) :
        /\ \A j \in 1..Len(costs) : ~TotalLt(costs[k], costs[j])
        /\ \A j \in (k + 1)..Len(costs) : TotalLt(costs[j], costs[k])) - 1

\* The triangle joins the group at position min_pos, or starts a group when
\* min_pos is the last position.
Place(groups, t, poly_idx, min_pos) ==
    IF min_pos = Len(groups)
    THEN Append(groups, [min |-> PolyMin(t), max |-> PolyMax(t), polys |-> <<poly_idx>>])
    ELSE [groups EXCEPT ![min_pos + 1] = add_polygon(@, t, poly_idx)]

\* One turn of the loop of subdivide_polys_into_groups.
SubdivideOne(brushes, groups, poly_idx) ==
    IF Len(groups) > 0
    THEN Place(groups, brushes[poly_idx + 1], poly_idx,
               MaxPos(Costs(groups, brushes[poly_idx + 1])))
    ELSE <<[min |-> PolyMin(brushes[poly_idx + 1]),
            max |-> PolyMax(brushes[poly_idx + 1]),
            polys |-> <<poly_idx>>]>>

\* The loop over the positions lo .. hi of polys.
RECURSIVE SubdivideLoop(_, _, _, _, _)
SubdivideLoop(brushes, polys, groups, lo, hi) ==
    IF lo > hi THEN groups
    ELSE IF lo = hi THEN SubdivideOne(brushes, groups, polys[lo])
    ELSE Only({SubdivideLoop(brushes, polys, left, ((lo + hi) \div 2) + 1, hi) :
                  left \in {SubdivideLoop(brushes, polys, groups, lo, (lo + hi) \div 2)}})

\* The poly lists of the groups.
GroupPolys(groups) == SubSeq([k \in 1..Len(groups) |-> groups[k].polys], 1, Len(groups))

subdivide_polys_into_groups(brushes, polys) ==
    GroupPolys(SubdivideLoop(brushes, polys, <<>>, 1, Len(polys)))

\* poly_bins[i * 16 + j]: the triangles whose xy extent overlaps the cell.
PolyBin(brushes, xs, ys, i, j) ==
    Ascending({k \in 0..(Len(brushes) - 1) :
                  Overlaps(xs, ys, i, j, PolyMin(brushes[k + 1]), PolyMax(brushes[k + 1]))})

\* poly_bins, and what subdivide_polys_into_groups returns for each bin.
BinGroups(brushes, xs, ys) ==
    SubSeq([c \in 1..256 |->
               subdivide_polys_into_groups(brushes,
                   PolyBin(brushes, xs, ys, (c - 1) \div 16, (c - 1) % 16))],
           1, 256)

\* seqs[lo] \o ... \o seqs[hi]
RECURSIVE Concat(_, _, _)
Concat(seqs, lo, hi) ==
    IF lo > hi THEN <<>>
    ELSE IF lo = hi THEN seqs[lo]
    ELSE Concat(seqs, lo, (lo + hi) \div 2) \o Concat(seqs, ((lo + hi) \div 2) + 1, hi)

\* new_list for the group at position k of ret: the polys no earlier group
\* (and no earlier position) has used.
NewList(ret, k) ==
    LET Fresh(g) == \A e \in 1..(k - 1) : \A q \in 1..Len(ret[e]) : ret[e][q] # g
    IN  SelectSeq(ret[k], Fresh)

\* final_list when every list of ret is kept as it is.
FinalList_keep_all(ret) == ret

\* final_list: the non-empty new lists, in order.
FinalList(ret) ==
    LET Kept(l) == l # <<>>
    IN  SelectSeq(SubSeq([k \in 1..Len(ret) |-> NewList(ret, k)], 1, Len(ret)), Kept)

\* ret is the groups of the bins 0 .. 255, in order.
GroupsIn(brushes, box) ==
    Only({FinalList(Concat(groups, 1, 256)) :
             groups \in {BinGroups(brushes,
                                    CellBounds(box.min[1], extent(box)[1]),
                                    CellBounds(box.min[2], extent(box)[2]))}})

\* ret of group_polys: the groups of the bins 0 .. 255 in bin order, before
\* the polys already used are dropped.
BinOrder(brushes, box) ==
    Only({Concat(groups, 1, 256) :
             groups \in {BinGroups(brushes,
                                    CellBounds(box.min[1], extent(box)[1]),
                                    CellBounds(box.min[2], extent(box)[2]))}})

\* DIFBuilder::group_polys.
group_polys(b) ==
    Only({GroupsIn(b.brushes, box) : box \in {Padded(get_bounding_box(b.brushes))}})

\* ------------------------------------------------------- exporters of build
\* The exporters thread the builder: an exporter takes the builder b and
\* returns [b, ret], the builder after the call and the index returned.  A
\* run r = [b, ret] of calls collects the indices returned so far in ret.
\* Indices narrower than 32 bits keep their width.
U16(x) == x % 65536

\* A u32 at or above 2^31 is written as the number it is as an i32:
\* 0xffffffff is -1.
U32_MAX == -1

\* SurfaceFlags::OUTSIDE_VISIBLE
OUTSIDE_VISIBLE == 16

Start(b) == [b |-> b, ret |-> <<>>]

\* The call x made after the run r.
Then(r, x) == [b |-> x.b, ret |-> Append(r.ret, x.ret)]

\* DIFBuilder::export_point.
export_point_found(b, point, found) ==
    IF found # {} THEN [b |-> b, ret |-> b.point_map[MapFirst(found)].val]
    ELSE [b |-> [b EXCEPT
                   !.interior.points = Append(@, point),
                   !.interior.point_visibilities = Append(@, 255),
                   !.point_map = Append(@, [key |-> point,
                                            val |-> Len(b.interior.points)])],
          ret |-> Len(b.interior.points)]

export_point(b, point) == export_point_found(b, point, PointMapFind(b.point_map, point))

\* solve_matrix: x = pinv(A) * u for the rows (p.x, p.y, p.z, 1) of the
\* three points.  The triangles built here carry the texture coordinates
\* (0, 0), and pinv(A) * 0 is the zero plane.
solve_matrix(point0, point1, point2, uv0, uv1, uv2) == PlaneF(Pt(0, 0, 0), FInt(0))

\* gen_tex_gen_from_points.
gen_tex_gen_from_points(point0, point1, point2, uv0, uv1, uv2) ==
    [plane_x |-> solve_matrix(point0, point1, point2, uv0[1], uv1[1], uv2[1]),
     plane_y |-> solve_matrix(point0, point1, point2, uv0[2], uv1[2], uv2[2])]

get_tex_gen(tri) ==
    gen_tex_gen_from_points(tri.verts[1], tri.verts[2], tri.verts[3],
                            tri.uv[1], tri.uv[2], tri.uv[3])

\* impl PartialEq for OrdTexGen: abs_diff_eq(1e-5) on the eight numbers.
OrdTexGen_eq(p, q) ==
    /\ \A c \in 1..3 : abs_diff_eq(p.plane_x.normal[c], q.plane_x.normal[c], FDec(1, 100000))
    /\ abs_diff_eq(p.plane_x.distance, q.plane_x.distance, FDec(1, 100000))
    /\ \A c \in 1..3 : abs_diff_eq(p.plane_y.normal[c], q.plane_y.normal[c], FDec(1, 100000))
    /\ abs_diff_eq(p.plane_y.distance, q.plane_y.distance, FDec(1, 100000))

\* impl Hash for OrdTexGen: the hash of OrdPlaneF for plane_x, then for
\* plane_y.
OrdTexGen_hash(p) == <<OrdPlaneF_hash(p.plane_x), OrdPlaneF_hash(p.plane_y)>>

TexGenMapFind(map, k) ==
    {i \in 1..Len(map) : OrdTexGen_hash(map[i].key) = OrdTexGen_hash(k)
                            /\ OrdTexGen_eq(map[i].key, k)}

\* DIFBuilder::export_tex_gen.
export_tex_gen_found(b, eq, found) ==
    IF found # {} THEN [b |-> b, ret |-> b.texgen_map[MapFirst(found)].val]
    ELSE [b |-> [b EXCEPT
                   !.interior.tex_gen_eqs = Append(@, eq),
                   !.texgen_map = Append(@, [key |-> eq,
                                             val |-> Len(b.interior.tex_gen_eqs)])],
          ret |-> Len(b.interior.tex_gen_eqs)]

export_tex_gen(b, triangle) ==
    export_tex_gen_found(b, get_tex_gen(triangle),
                         TexGenMapFind(b.texgen_map, get_tex_gen(triangle)))

\* DIFBuilder::export_texture.
export_texture(b, texture) ==
    IF \E i \in 1..Len(b.interior.material_names) : b.interior.material_names[i] = texture
    THEN [b |-> b,
          ret |-> U16((CHOOSE i \in 1..Len(b.interior.material_names) :
                          /\ b.interior.material_names[i] = texture
                          /\ \A j \in 1..(i - 1) : b.interior.material_names[j] # texture)
                      - 1)]
    ELSE [b |-> [b EXCEPT !.interior.material_names = Append(@, texture)],
          ret |-> U16(Len(b.interior.material_names))]

\* The exporters as steps of a run.
plane_then(r, plane) == Then(r, export_plane(r.b, plane))

tex_gen_then(r, triangle) == Then(r, export_tex_gen(r.b, triangle))

point_then(r, point) == Then(r, export_point(r.b, point))

texture_then(r, texture) == Then(r, export_texture(r.b, texture))

\* face_to_surface.get(id) / face_to_plane.get(id).
FaceFind(map, id) == {i \in 1..Len(map) : map[i].key = id}

\* The end of export_surface: r is the run of export_plane, export_tex_gen,
\* three export_point and export_texture made for the triangle.
export_surface_push(triangle, index, r) ==
    [b |-> [r.b EXCEPT
              !.face_to_surface =
                  Append(@, [key |-> triangle.id,
                             val |-> [null |-> FALSE, index |-> index]]),
              !.face_to_plane = Append(@, [key |-> triangle.id, val |-> r.ret[1]]),
              !.interior.indices = @ \o <<r.ret[3], r.ret[4], r.ret[5]>>,
              !.interior.zone_surfaces = Append(@, index),
              !.interior.normal_lmap_indices = Append(@, 0),
              !.interior.alarm_lmap_indices = Append(@, U32_MAX),
              !.interior.surfaces =
                  Append(@, [winding_start |-> Len(r.b.interior.indices),
                             winding_count |-> 3,
                             plane_index |-> r.ret[1],
                             plane_flipped |-> r.ret[1] >= FLIPPED,
                             texture_index |-> r.ret[6],
                             tex_gen_index |-> r.ret[2],
                             surface_flags |-> OUTSIDE_VISIBLE,
                             fan_mask |-> 7,
                             light_map |-> [final_word |-> 0,
                                            tex_gen_x_distance |-> FInt(0),
                                            tex_gen_y_distance |-> FInt(0)],
                             light_count |-> 0,
                             light_state_info_start |-> 0,
                             map_offset_x |-> 0, map_offset_y |-> 0,
                             map_size_x |-> 32, map_size_y |-> 32,
                             brush_id |-> 0])],
     ret |-> [null |-> FALSE, index |-> index]]

\* DIFBuilder::export_surface.
export_surface(b, triangle) ==
    IF FaceFind(b.face_to_surface, triangle.id) # {}
    THEN [b |-> b,
          ret |-> b.face_to_surface[MapFirst(FaceFind(b.face_to_surface, triangle.id))].val]
    ELSE export_surface_push(triangle, U16(Len(b.interior.surfaces)),
            texture_then(
                point_then(point_then(point_then(
                    tex_gen_then(plane_then(Start(b), triangle.plane), triangle),
                    triangle.verts[1]), triangle.verts[2]), triangle.verts[3]),
                triangle.material))

\* The end of export_null_surface: r is the run of export_plane and three
\* export_point made for the triangle.
export_null_surface_push(triangle, index, r) ==
    [b |-> [r.b EXCEPT
              !.face_to_surface =
                  Append(@, [key |-> triangle.id,
                             val |-> [null |-> TRUE, index |-> index]]),
              !.face_to_plane = Append(@, [key |-> triangle.id, val |-> r.ret[1]]),
              !.interior.indices = @ \o <<r.ret[2], r.ret[3], r.ret[4]>>,
              !.interior.null_surfaces =
                  Append(@, [plane_index |-> r.ret[1],
                             surface_flags |-> OUTSIDE_VISIBLE,
                             winding_start |-> Len(r.b.interior.indices),
                             winding_count |-> 3])],
     ret |-> [null |-> TRUE, index |-> index]]

\* DIFBuilder::export_null_surface.
export_null_surface(b, triangle) ==
    IF FaceFind(b.face_to_surface, triangle.id) # {}
    THEN [b |-> b,
          ret |-> b.face_to_surface[MapFirst(FaceFind(b.face_to_surface, triangle.id))].val]
    ELSE export_null_surface_push(triangle, U16(Len(b.interior.null_surfaces)),
            point_then(point_then(point_then(
                plane_then(Start(b), triangle.plane),
                triangle.verts[1]), triangle.verts[2]), triangle.verts[3]))

\* One call of the loops of export_convex_hull: export_point of a vertex,
\* export_plane of a face, export_surface / export_null_surface of a face.
ExportOne(r, op, item) ==
    IF op = "point" THEN point_then(r, item)
    ELSE IF op = "plane" THEN plane_then(r, item.plane)
    ELSE IF item.material = "NULL" THEN Then(r, export_null_surface(r.b, item))
    ELSE Then(r, export_surface(r.b, item))

\* The loop over the items lo .. hi.
RECURSIVE ExportAll(_, _, _, _, _)
ExportAll(r, op, items, lo, hi) ==
    IF lo > hi THEN r
    ELSE IF lo = hi THEN ExportOne(r, op, items[lo])
    ELSE Only({ExportAll(left, op, items, ((lo + hi) \div 2) + 1, hi) :
                  left \in {ExportAll(r, op, items, lo, (lo + hi) \div 2)}})

\* The triangles of a poly group.
GroupTriangles(b, poly_group) ==
    SubSeq([i \in 1..Len(poly_group) |-> b.brushes[poly_group[i] + 1]],
           1, Len(poly_group))

\* The ConvexHull record of export_convex_hull for the triangles ts, from
\* the builder b the call starts in.
HullRecord(b, ts, bounding_box) ==
    [hull_start |-> Len(b.interior.hull_indices),
     hull_count |-> U16(3 * Len(ts)),
     min_x |-> bounding_box.min[1], max_x |-> bounding_box.max[1],
     min_y |-> bounding_box.min[2], max_y |-> bounding_box.max[2],
     min_z |-> bounding_box.min[3], max_z |-> bounding_box.max[3],
     surface_start |-> Len(b.interior.hull_surface_indices),
     surface_count |-> U16(Len(ts)),
     plane_start |-> Len(b.interior.hull_plane_indices),
     poly_list_plane_start |-> Len(b.interior.poly_list_plane_indices),
     poly_list_point_start |-> Len(b.interior.poly_list_point_indices),
     poly_list_string_start |-> 0,
     static_mesh |-> 0]

\* The end of export_convex_hull for a builder with mb_only set: r is the
\* run of export_point over the 3n vertices, export_plane over the n faces
\* and export_surface over the n faces.  (The poly lists, hull planes and
\* emit strings are written only when mb_only is not set.)
convex_hull_push(hull, n, r) ==
    [b |-> [r.b EXCEPT
              !.interior.hull_indices = @ \o SubSeq(r.ret, 1, 3 * n),
              !.interior.hull_surface_indices = @ \o SubSeq(r.ret, 4 * n + 1, 5 * n),
              !.interior.convex_hulls = Append(@, hull)],
     ret |-> Len(r.b.interior.convex_hulls)]

\* DIFBuilder::export_convex_hull, for the triangles ts of the poly group.
ExportHull(b, ts) ==
    convex_hull_push(HullRecord(b, ts, from_vertices(FlatVerts(ts), 3 * Len(ts))),
                     Len(ts),
                     ExportAll(ExportAll(ExportAll(Start(b), "point", FlatVerts(ts),
                                                   1, 3 * Len(ts)),
                                         "plane", ts, 1, Len(ts)),
                               "surface", ts, 1, Len(ts)))

export_convex_hull(b, poly_group) == ExportHull(b, GroupTriangles(b, poly_group))

\* The loop of export_brushes over the groups lo .. hi: one hull per group.
RECURSIVE ExportHulls(_, _, _, _)
ExportHulls(b, grouped, lo, hi) ==
    IF lo > hi THEN b
    ELSE IF lo = hi THEN export_convex_hull(b, grouped[lo]).b
    ELSE Only({ExportHulls(left, grouped, ((lo + hi) \div 2) + 1, hi) :
                  left \in {ExportHulls(b, grouped, lo, (lo + hi) \div 2)}})

\* ---------------------------------------------------------------- build_bsp
\* The loop of build_bsp over the triangles: acc holds plane_map, plane_list
\* and the polygons made so far.  Planes that compare equal share an id.
BspPolygonAdd(acc, b, found) ==
    IF found # {}
    THEN [acc EXCEPT !.polys = Append(@, BSPPolygon(b.id, b.verts, b.plane,
                                       acc.plane_map[MapFirst(found)].val))]
    ELSE [plane_map |-> Append(acc.plane_map,
                               [key |-> b.plane, val |-> Len(acc.plane_list)]),
          plane_list |-> Append(acc.plane_list, b.plane),
          polys |-> Append(acc.polys,
                           BSPPolygon(b.id, b.verts, b.plane, Len(acc.plane_list)))]

\* The loop over the triangles lo .. hi.
RECURSIVE BspPolygons(_, _, _, _)
BspPolygons(brush_list, acc, lo, hi) ==
    IF lo > hi THEN acc
    ELSE IF lo = hi
    THEN BspPolygonAdd(acc, brush_list[lo], PlaneMapFind(acc.plane_map, brush_list[lo].plane))
    ELSE Only({BspPolygons(brush_list, left, ((lo + hi) \div 2) + 1, hi) :
                  left \in {BspPolygons(brush_list, acc, lo, (lo + hi) \div 2)}})

\* UnusedPlanes when the test `!brush.used_plane` never succeeds.
UnusedPlanes_none(brush_list) == {}

\* UnusedPlanes when the planes of all brushes are offered to the selection.
UnusedPlanes_all(brush_list) ==
    {brush_list[k].plane_id : k \in 1..Len(brush_list)}

\* The distinct plane ids of the brushes that have not used their plane.
UnusedPlanes(brush_list) ==
    {brush_list[k].plane_id : k \in {i \in 1..Len(brush_list) : ~brush_list[i].used_plane}}

\* DIFBSPNode::from_brushes.  A child is the position of the node in the
\* tree's list of nodes, 0 for None; plane_index -1 is None.
from_brushes(brush_list) ==
    [brush_list |-> brush_list, front |-> 0, back |-> 0, plane_index |-> -1,
     solid |-> FALSE,
     avail_planes |-> {brush_list[k].plane_id : k \in 1..Len(brush_list)}]

\* build_bsp up to the call root.split_new_impl: the tree holds the root,
\* and stack the nodes whose split_new_impl has a splitter to select (the
\* call on a node without an unused plane returns at once).
TreeOf(acc) ==
    [nodes |-> <<from_brushes(acc.polys)>>,
     stack |-> IF UnusedPlanes(acc.polys) # {} THEN <<1>> ELSE <<>>,
     plane_list |-> acc.plane_list,
     used_planes |-> {},
     progress |-> <<>>,
     ok |-> TRUE]

build_bsp(brush_list) ==
    TreeOf(BspPolygons(brush_list,
                       [plane_map |-> <<>>, plane_list |-> <<>>, polys |-> <<>>],
                       1, Len(brush_list)))

\* ------------------------------------------------- calculate_split_rating
\* d = test_plane.normal.dot(pt) + test_plane.distance over the unique
\* points of the polygon.
SideValues(self, test_plane) ==
    {PlaneDot(test_plane, self.vertices[self.indices[i] + 1]) : i \in 1..Len(self.indices)}

\* max_front and min_back: they start from 0.0.
MaxFront(ds) ==
    IF \E d \in ds : FLt(FInt(0), d) THEN CHOOSE d \in ds : \A x \in ds : ~FLt(d, x)
    ELSE FInt(0)

MinBack(ds) ==
    IF \E d \in ds : FLt(d, FInt(0)) THEN CHOOSE d \in ds : \A x \in ds : ~FLt(x, d)
    ELSE FInt(0)

\* (front, back, splits, coplanar, tiny_windings) from max_front, min_back.
SplitRatingOf(max_front, min_back) ==
    << IF FLt(EPSILON, max_front) THEN 1 ELSE 0,
       IF FLt(min_back, FNeg(EPSILON)) THEN 1 ELSE 0,
       IF FLt(EPSILON, max_front) /\ FLt(min_back, FNeg(EPSILON)) THEN 1 ELSE 0,
       0,
       IF \/ (FLt(FInt(0), max_front) /\ FLt(max_front, FInt(1)))
          \/ (FLt(min_back, FInt(0)) /\ FLt(FInt(-1), min_back))
       THEN 1 ELSE 0 >>

\* calculate_split_rating with the two tuples of the polygon's own plane
\* exchanged.
calculate_split_rating_swapped(self, plane_id, plane_list, first) ==
    IF first /\ self.plane_id = plane_id
    THEN (IF self.inverted_plane THEN <<0, 1, 0, 1, 0>> ELSE <<1, 0, 0, 1, 0>>)
    ELSE SplitRatingOf(MaxFront(SideValues(self, plane_list[plane_id + 1])),
                       MinBack(SideValues(self, plane_list[plane_id + 1])))

\* BSPPolygon::calculate_split_rating.  first tells how the test on
\* considered_planes came out for a polygon of the plane itself: TRUE when
\* the call found the plane not yet considered.  The test and the insert
\* take the lock separately, so under the parallel map several polygons of
\* the plane can find it not yet considered, and which do depends on the
\* schedule.
calculate_split_rating(self, plane_id, plane_list, first) ==
    IF first /\ self.plane_id = plane_id
    THEN (IF self.inverted_plane THEN <<1, 0, 0, 1, 0>> ELSE <<0, 1, 0, 1, 0>>)
    ELSE SplitRatingOf(MaxFront(SideValues(self, plane_list[plane_id + 1])),
                       MinBack(SideValues(self, plane_list[plane_id + 1])))

\* ------------------------------------------------------ calc_plane_rating
\* f32::log2 of 1 and of the ratios front / (front + back) that 8 or fewer
\* polygons on a side can give (the values libm returns, which are the
\* correctly rounded ones); log2(0) is -inf.
FLog2(x) ==
    IF x[2] = 0 THEN FNeg(F_INFINITY)
    ELSE CASE x = FInt(1) -> FInt(0)
         [] x = <<0, 14913081, -27>> -> <<1, 13295629, -22>>
         [] x = <<0, 8388608, -26>> -> <<1, 12582912, -22>>
         [] x = <<0, 9586981, -26>> -> <<1, 11774900, -22>>
         [] x = <<0, 11184811, -26>> -> <<1, 10842118, -22>>
         [] x = <<0, 13421773, -26>> -> <<1, 9738872, -22>>
         [] x = <<0, 14913081, -26>> -> <<1, 9101325, -22>>
         [] x = <<0, 8388608, -25>> -> <<1, 8388608, -22>>
         [] x = <<0, 9151209, -25>> -> <<1, 15724186, -23>>
         [] x = <<0, 9586981, -25>> -> <<1, 15161191, -23>>
         [] x = <<0, 10066330, -25>> -> <<1, 14570723, -23>>
         [] x = <<0, 11184811, -25>> -> <<1, 13295629, -23>>
         [] x = <<0, 12201612, -25>> -> <<1, 12242599, -23>>
         [] x = <<0, 12582912, -25>> -> <<1, 11870195, -23>>
         [] x = <<0, 12905551, -25>> -> <<1, 11563793, -23>>
         [] x = <<0, 13421773, -25>> -> <<1, 11089136, -23>>
         [] x = <<0, 13981013, -25>> -> <<1, 10595101, -23>>
         [] x = <<0, 14380471, -25>> -> <<1, 10254171, -23>>
         [] x = <<0, 14913081, -25>> -> <<1, 9814042, -23>>
         [] x = <<0, 15252015, -25>> -> <<1, 9542071, -23>>
         [] x = <<0, 15486661, -25>> -> <<1, 9357301, -23>>
         [] x = <<0, 15658735, -25>> -> <<1, 9223574, -23>>
         [] x = <<0, 8388608, -24>> -> <<1, 8388608, -23>>
         [] x = <<0, 8947849, -24>> -> <<1, 15215098, -24>>
         [] x = <<0, 9033886, -24>> -> <<1, 14983475, -24>>
         [] x = <<0, 9151209, -24>> -> <<1, 14671157, -24>>
         [] x = <<0, 9320676, -24>> -> <<1, 14227026, -24>>
         [] x = <<0, 9586981, -24>> -> <<1, 13545167, -24>>
         [] x = <<0, 9786709, -24>> -> <<1, 13046091, -24>>
         [] x = <<0, 10066330, -24>> -> <<1, 12364230, -24>>
         [] x = <<0, 10324441, -24>> -> <<1, 11751428, -24>>
         [] x = <<0, 10485760, -24>> -> <<1, 11376159, -24>>
         [] x = <<0, 10676410, -24>> -> <<1, 10940032, -24>>
         [] x = <<0, 11184811, -24>> -> <<1, 9814042, -24>>
         [] x = <<0, 11744051, -24>> -> <<1, 8633106, -24>>
         [] x = <<0, 11983726, -24>> -> <<1, 16288220, -25>>
         [] x = <<0, 12201612, -24>> -> <<1, 15415966, -25>>
         [] x = <<0, 12582912, -24>> -> <<1, 13926348, -25>>
         [] x = <<0, 13048946, -24>> -> <<1, 12165832, -25>>
         [] x = <<0, 13421773, -24>> -> <<1, 10802114, -25>>
         [] x = <<0, 13981013, -24>> -> <<1, 8825971, -25>>
         [] x = <<0, 14380471, -24>> -> <<1, 14924502, -26>>
         [] x = <<0, 14680064, -24>> -> <<1, 12928192, -26>>
         [] x = <<0, 14913081, -24>> -> <<1, 11403473, -26>>

\* f32::round (half away from zero) followed by `as i32`; NaN gives 0.
FRoundI32(a) ==
    IF IsNaN(a) \/ a[2] = 0 \/ a[3] <= -25 THEN 0
    ELSE IF a[3] >= 0 THEN (IF a[1] = 1 THEN -(a[2] * 2^a[3]) ELSE a[2] * 2^a[3])
    ELSE IF a[1] = 1
    THEN -(a[2] \div 2^(-a[3]) + (IF a[2] % 2^(-a[3]) >= 2^(-a[3] - 1) THEN 1 ELSE 0))
    ELSE a[2] \div 2^(-a[3]) + (IF a[2] % 2^(-a[3]) >= 2^(-a[3] - 1) THEN 1 ELSE 0)

\* p * p.log2()
PLog2(p) == FMul(p, FLog2(p))

\* The rating from the sums of the tuples:
\* (-entropy * jaccard * 1000.0).round() as i32.
RatingOf(front, back, splits) ==
    FRoundI32(FMul(FMul(FNeg(IF front + back > 0
                             THEN FAdd(PLog2(FDiv(FInt(front), FInt(front + back))),
                                       PLog2(FDiv(FInt(back), FInt(front + back))))
                             ELSE FInt(0)),
                        FDiv(FInt((front - splits) + (back - splits)),
                             FInt(front + back))),
                   FInt(1000)))

\* The sum of component c over the tuples (each component is 0 or 1).
SumOf(tuples, c) == Cardinality({k \in 1..Len(tuples) : tuples[k][c] = 1})

\* DIFBSPNode::calc_plane_rating when the polygons at the positions firsts
\* of brush_list are the ones that found the plane not yet considered;
\* later holds the tuple of every polygon for the other outcome.
calc_plane_rating(brush_list, plane_id, plane_list, firsts, later) ==
    RatingOf(SumOf(later, 1) - Cardinality({k \in firsts : later[k][1] = 1})
                 + Cardinality({k \in firsts : brush_list[k].inverted_plane}),
             SumOf(later, 2) - Cardinality({k \in firsts : later[k][2] = 1})
                 + Cardinality({k \in firsts : ~brush_list[k].inverted_plane}),
             SumOf(later, 3) - Cardinality({k \in firsts : later[k][3] = 1}))

\* The tuple of every polygon of brush_list for a call that finds the
\* plane considered already.
LaterTuples(brush_list, plane_id, plane_list) ==
    SubSeq([k \in 1..Len(brush_list) |->
               calculate_split_rating(brush_list[k], plane_id, plane_list, FALSE)],
           1, Len(brush_list))

\* The ratings calc_plane_rating can return for the plane: one per
\* non-empty set of polygons of the plane that found it not yet considered
\* (the first call to make the test always does).
RatingsOver(brush_list, plane_id, plane_list, later) ==
    {calc_plane_rating(brush_list, plane_id, plane_list, firsts, later) :
        firsts \in (SUBSET {k \in 1..Len(brush_list) : brush_list[k].plane_id = plane_id})
                   \ {{}}}

Ratings(brush_list, plane_id, plane_list) ==
    RatingsOver(brush_list, plane_id, plane_list,
                LaterTuples(brush_list, plane_id, plane_list))

\* ---------------------------------------------------- select_best_splitter
SetMax(S) == CHOOSE x \in S : \A y \in S : y <= x

SetMin(S) == CHOOSE x \in S : \A y \in S : x <= y

\* max_by_key over the candidates cs with the possible ratings rs: the last
\* of the largest.  The candidates come out of a HashSet whose order
\* changes from one run to the next, so a plane can be the last of the
\* largest whenever one of its ratings is no less than some rating of every
\* other candidate.
MaxByKey(cs, rs) ==
    {cs[i] : i \in {k \in 1..Len(cs) :
                       \A j \in 1..Len(cs) : SetMax(rs[k]) >= SetMin(rs[j])}}

\* DIFBSPNode::select_best_splitter (the candidate planes number 32 or
\* fewer, so choose_multiple keeps them all).
select_best_splitter(brush_list, plane_list, cs) ==
    MaxByKey(cs, SubSeq([i \in 1..Len(cs) |-> Ratings(brush_list, cs[i], plane_list)],
                        1, Len(cs)))

\* DIFBSPNode::select_best_splitter_new: the planes are sorted into 64
\* directions, and the median plane by distance of each direction is rated.
\* Which planes share a direction is not modelled: any unused plane may be
\* the one selected.
select_best_splitter_new(brush_list, plane_list, cs) == {cs[i] : i \in 1..Len(cs)}

\* ------------------------------------------------------------ classify_poly
\* BSPPolygon::classify_poly from the counts of the vertices in front of,
\* behind and on the plane.
ClassifyOf(front_count, back_count, on_count) ==
    IF front_count > 0 /\ back_count = 0 THEN 1
    ELSE IF front_count = 0 /\ back_count > 0 THEN -1
    ELSE IF front_count = 0 /\ back_count = 0 /\ on_count > 0 THEN 0
    ELSE 2

\* face_dot of the vertices at the positions of indices.
FaceDots(self, plane) ==
    SubSeq([i \in 1..Len(self.indices) |->
               PlaneDot(plane, self.vertices[self.indices[i] + 1])],
           1, Len(self.indices))

ClassifyDots(ds) ==
    ClassifyOf(Cardinality({i \in 1..Len(ds) : FLt(EPSILON, ds[i])}),
               Cardinality({i \in 1..Len(ds) : FLt(ds[i], FNeg(EPSILON))}),
               Cardinality({i \in 1..Len(ds) :
                               ~FLt(EPSILON, ds[i]) /\ ~FLt(ds[i], FNeg(EPSILON))}))

classify_poly(self, plane) == ClassifyDots(FaceDots(self, plane))

\* --------------------------------------------------------- BSPPolygon::split
\* The brushes split gives from the two clips: used_plane is set on both
\* when the plane is the brush's own.
SplitOf(self, plane, fr, bk) ==
    [front_brush |-> IF self.plane_id = plane
                     THEN [fr.poly EXCEPT !.used_plane = TRUE] ELSE fr.poly,
     back_brush |-> IF self.plane_id = plane
                    THEN [bk.poly EXCEPT !.used_plane = TRUE] ELSE bk.poly,
     ok |-> fr.ok /\ bk.ok]

split(self, plane, plane_list) ==
    SplitOf(self, plane, clip_plane(self, plane, plane_list, TRUE),
            clip_plane(self, plane, plane_list, FALSE))

\* ------------------------------------------------------------ split_new_impl
\* What the loop over brush_list does with the brush b: the brushes pushed
\* to front_brushes and to back_brushes; ok is FALSE when a clip of split
\* fails its assertion.
Spanning(sp) ==
    [front |-> IF Len(sp.front_brush.indices) > 2 THEN <<sp.front_brush>> ELSE <<>>,
     back |-> IF Len(sp.back_brush.indices) > 2 THEN <<sp.back_brush>> ELSE <<>>,
     ok |-> sp.ok]

\* Classified when the loop forgets the brushes that coincide with the
\* split plane.
Classified_coinciding_dropped(b, split_plane, plane_list, classify_score) ==
    IF b.plane_id = split_plane \/ classify_score = 0
    THEN [front |-> <<>>, back |-> <<>>, ok |-> TRUE]
    ELSE IF classify_score = 1 THEN [front |-> <<b>>, back |-> <<>>, ok |-> TRUE]
    ELSE IF classify_score = -1 THEN [front |-> <<>>, back |-> <<b>>, ok |-> TRUE]
    ELSE Spanning(split(b, split_plane, plane_list))

\* Classified when the brushes that coincide with the split plane are
\* pushed to front_brushes.
Classified_coinciding_front(b, split_plane, plane_list, classify_score) ==
    IF b.plane_id = split_plane \/ classify_score = 0
    THEN [front |-> <<[b EXCEPT !.used_plane = TRUE]>>, back |-> <<>>, ok |-> TRUE]
    ELSE IF classify_score = 1 THEN [front |-> <<b>>, back |-> <<>>, ok |-> TRUE]
    ELSE IF classify_score = -1 THEN [front |-> <<>>, back |-> <<b>>, ok |-> TRUE]
    ELSE Spanning(split(b, split_plane, plane_list))

Classified(b, split_plane, plane_list, classify_score) ==
    IF b.plane_id = split_plane \/ classify_score = 0
    THEN [front |-> <<>>, back |-> <<[b EXCEPT !.used_plane = TRUE]>>, ok |-> TRUE]
    ELSE IF classify_score = 1 THEN [front |-> <<b>>, back |-> <<>>, ok |-> TRUE]
    ELSE IF classify_score = -1 THEN [front |-> <<>>, back |-> <<b>>, ok |-> TRUE]
    ELSE Spanning(split(b, split_plane, plane_list))

SplitBrushes(brush_list, split_plane, plane_list) ==
    SubSeq([k \in 1..Len(brush_list) |->
               Classified(brush_list[k], split_plane, plane_list,
                          classify_poly(brush_list[k], plane_list[split_plane + 1]))],
           1, Len(brush_list))

\* front_brushes (side = "front") or back_brushes: what the brushes
\* lo .. hi push.
RECURSIVE SideBrushes(_, _, _, _)
SideBrushes(parts, side, lo, hi) ==
    IF lo > hi THEN <<>>
    ELSE IF lo = hi THEN (IF side = "front" THEN parts[lo].front ELSE parts[lo].back)
    ELSE SideBrushes(parts, side, lo, (lo + hi) \div 2)
         \o SideBrushes(parts, side, ((lo + hi) \div 2) + 1, hi)

\* The child node made of the brushes of one side, after the loop that
\* marks the brushes of the split plane as used.
ChildNode(brushes, split_plane) ==
    [brush_list |-> SubSeq([k \in 1..Len(brushes) |->
                               IF brushes[k].plane_id = split_plane
                               THEN [brushes[k] EXCEPT !.used_plane = TRUE]
                               ELSE brushes[k]],
                           1, Len(brushes)),
     front |-> 0, back |-> 0, plane_index |-> -1, solid |-> FALSE,
     avail_planes |-> {brushes[k].plane_id :
                          k \in {i \in 1..Len(brushes) :
                                    /\ brushes[i].plane_id # split_plane
                                    /\ ~brushes[i].used_plane}}]

\* The calls of progress_report_callback.progress so far: split_new_impl
\* reports used_planes.len() of plane_list.len() when the split plane is
\* new to used_planes.
report_progress(tree, split_plane) ==
    IF split_plane \in tree.used_planes THEN tree.progress
    ELSE Append(tree.progress,
                [current |-> Cardinality(tree.used_planes \cup {split_plane}),
                 total |-> Len(tree.plane_list),
                 status |-> "Building BSP"])

\* The children take the next positions in nodes, front before back; the
\* calls split_new_impl on front and then on back are kept on the stack
\* when the child has a brush with an unused plane.
Children(tree, n, split_plane, front_brushes, back_brushes) ==
    [nodes |-> [tree.nodes EXCEPT ![n] =
                   [brush_list |-> <<>>,
                    front |-> IF front_brushes # <<>> THEN Len(tree.nodes) + 1 ELSE 0,
                    back |-> IF back_brushes = <<>> THEN 0
                             ELSE IF front_brushes # <<>> THEN Len(tree.nodes) + 2
                             ELSE Len(tree.nodes) + 1,
                    plane_index |-> split_plane, solid |-> FALSE,
                    avail_planes |-> {}]]
               \o (IF front_brushes # <<>>
                   THEN <<ChildNode(front_brushes, split_plane)>> ELSE <<>>)
               \o (IF back_brushes # <<>>
                   THEN <<ChildNode(back_brushes, split_plane)>> ELSE <<>>),
     stack |-> (IF UnusedPlanes(front_brushes) \ {split_plane} # {}
                THEN <<Len(tree.nodes) + 1>> ELSE <<>>)
               \o (IF UnusedPlanes(back_brushes) \ {split_plane} # {}
                   THEN <<IF front_brushes # <<>> THEN Len(tree.nodes) + 2
                          ELSE Len(tree.nodes) + 1>>
                   ELSE <<>>)
               \o Tail(tree.stack),
     plane_list |-> tree.plane_list,
     used_planes |-> tree.used_planes \cup {split_plane},
     progress |-> report_progress(tree, split_plane),
     ok |-> TRUE]

SplitWith(tree, n, split_plane, parts) ==
    IF \E k \in 1..Len(parts) : ~parts[k].ok
    THEN [tree EXCEPT !.ok = FALSE]
    ELSE Children(tree, n, split_plane,
                  SideBrushes(parts, "front", 1, Len(parts)),
                  SideBrushes(parts, "back", 1, Len(parts)))

\* DIFBSPNode::split_new_impl of node n with the splitter selected: the
\* node becomes an inner node with the children the brushes give.
split_new_impl(tree, n, split_plane) ==
    SplitWith(tree, n, split_plane,
              SplitBrushes(tree.nodes[n].brush_list, split_plane, tree.plane_list))

\* The planes the selection of node n can return.
Splitters(tree, n, method) ==
    IF method = "Fast"
    THEN select_best_splitter(tree.nodes[n].brush_list, tree.plane_list,
                              Ascending(UnusedPlanes(tree.nodes[n].brush_list)))
    ELSE select_best_splitter_new(tree.nodes[n].brush_list, tree.plane_list,
                                  Ascending(UnusedPlanes(tree.nodes[n].brush_list)))

\* DIFBSPNode::height and balance_factor of node n (0 is None).
RECURSIVE height(_, _)
height(tree, n) ==
    IF n = 0 THEN 0
    ELSE 1 + SetMax({0, height(tree, tree.nodes[n].front),
                     height(tree, tree.nodes[n].back)})

\* balance_factor when the height of the back subtree is added.
balance_factor_sum(tree, n) ==
    height(tree, tree.nodes[n].front) + height(tree, tree.nodes[n].back)

balance_factor(tree, n) ==
    height(tree, tree.nodes[n].front) - height(tree, tree.nodes[n].back)

\* ---------------------------------------------------------- export_bsp_node
\* BSPIndex of a leaf that is not solid.
EmptyLeaf == [leaf |-> TRUE, solid |-> FALSE, index |-> 0]

\* The values face_to_surface holds for the brushes, in order.
BrushSurfaces(b, brush_list) ==
    SubSeq([k \in 1..Len(brush_list) |->
               b.face_to_surface[MapFirst(FaceFind(b.face_to_surface,
                                                   brush_list[k].id))].val],
           1, Len(brush_list))

\* The values the set exported does not hold yet when their turn comes.
Exported(vals) ==
    Only({SubSeq([i \in 1..Len(first) |-> vals[first[i]]], 1, Len(first)) :
             first \in {Ascending({k \in 1..Len(vals) :
                                      \A j \in 1..(k - 1) : vals[j] # vals[k]})}})

\* export_solid_leaf when leaf_index is taken after the push of the leaf.
export_solid_leaf_index_after_push(b, pushed) ==
    IF Len(pushed) = 0
    THEN [b |-> [b EXCEPT !.interior.solid_leaf_surfaces = @ \o pushed],
          ret |-> EmptyLeaf]
    ELSE [b |-> [b EXCEPT
                   !.interior.solid_leaf_surfaces = @ \o pushed,
                   !.interior.bsp_solid_leaves =
                       Append(@, [surface_index |-> Len(b.interior.solid_leaf_surfaces),
                                  surface_count |-> U16(Len(pushed))])],
          ret |-> [leaf |-> TRUE, solid |-> TRUE,
                   index |-> Len(b.interior.bsp_solid_leaves) + 1]]

\* export_bsp_node of a node without plane_index that holds brushes: the
\* surfaces pushed are pushed.
export_solid_leaf(b, pushed) ==
    IF Len(pushed) = 0
    THEN [b |-> [b EXCEPT !.interior.solid_leaf_surfaces = @ \o pushed],
          ret |-> EmptyLeaf]
    ELSE [b |-> [b EXCEPT
                   !.interior.solid_leaf_surfaces = @ \o pushed,
                   !.interior.bsp_solid_leaves =
                       Append(@, [surface_index |-> Len(b.interior.solid_leaf_surfaces),
                                  surface_count |-> U16(Len(pushed))])],
          ret |-> [leaf |-> TRUE, solid |-> TRUE,
                   index |-> Len(b.interior.bsp_solid_leaves)]]

\* bsp_node_finish when the front child is stored on both sides.
bsp_node_finish_front_twice(node_index, r) ==
    [b |-> [r.b EXCEPT !.interior.bsp_nodes[node_index + 1] =
               [plane_index |-> r.ret[1] % FLIPPED,
                front_index |-> r.ret[2],
                back_index |-> r.ret[2]]],
     ret |-> [leaf |-> FALSE, solid |-> FALSE, index |-> node_index]]

\* The end of export_bsp_node for an inner node: r is the run of export_plane
\* and the exports of the front and of the back child.
bsp_node_finish(node_index, r) ==
    [b |-> [r.b EXCEPT !.interior.bsp_nodes[node_index + 1] =
               [plane_index |-> r.ret[1] % FLIPPED,
                front_index |-> IF r.ret[1] >= FLIPPED THEN r.ret[3] ELSE r.ret[2],
                back_index |-> IF r.ret[1] >= FLIPPED THEN r.ret[2] ELSE r.ret[3]]],
     ret |-> [leaf |-> FALSE, solid |-> FALSE, index |-> node_index]]

\* DIFBuilder::export_bsp_node of node n of the tree; export_bsp_child is
\* the match on node.front / node.back made after the run r.
RECURSIVE export_bsp_node(_, _, _)
RECURSIVE export_bsp_child(_, _, _)
export_bsp_child(r, tree, child) ==
    IF child = 0 THEN [b |-> r.b, ret |-> Append(r.ret, EmptyLeaf)]
    ELSE Then(r, export_bsp_node(r.b, tree, child))

export_bsp_node(b, tree, n) ==
    IF tree.nodes[n].plane_index = -1
    THEN (IF Len(tree.nodes[n].brush_list) > 0
          THEN export_solid_leaf(b, Exported(BrushSurfaces(b, tree.nodes[n].brush_list)))
          ELSE [b |-> b, ret |-> EmptyLeaf])
    ELSE bsp_node_finish(Len(b.interior.bsp_nodes),
            export_bsp_child(
                export_bsp_child(
                    plane_then(Start([b EXCEPT !.interior.bsp_nodes =
                                         Append(@, [plane_index |-> 0,
                                                    front_index |-> EmptyLeaf,
                                                    back_index |-> EmptyLeaf])]),
                               tree.plane_list[tree.nodes[n].plane_index + 1]),
                    tree, tree.nodes[n].front),
                tree, tree.nodes[n].back))

\* --------------------------------------------------------- export_coord_bins
\* HullsIn when only the x extent is tested: the hulls over the column i.
HullsIn_x_only(hulls, xs, ys, i, j) ==
    Ascending({k \in 0..(Len(hulls) - 1) :
                  \E j2 \in 0..15 :
                      Overlaps(xs, ys, i, j2,
                               <<hulls[k + 1].min_x, hulls[k + 1].min_y>>,
                               <<hulls[k + 1].max_x, hulls[k + 1].max_y>>)})

\* The hulls (positions from 0) whose xy extent overlaps the cell (i, j).
HullsIn(hulls, xs, ys, i, j) ==
    Ascending({k \in 0..(Len(hulls) - 1) :
                  Overlaps(xs, ys, i, j,
                           <<hulls[k + 1].min_x, hulls[k + 1].min_y>>,
                           <<hulls[k + 1].max_x, hulls[k + 1].max_y>>)})

\* The body of the inner loop for the bin bin_index, with the hulls pushed.
\* b holds coord_bins and coord_bin_indices.
BinCell(b, bin_index, pushed) ==
    [coord_bins |-> [b.coord_bins EXCEPT ![bin_index + 1] =
                        [bin_start |-> Len(b.coord_bin_indices),
                         bin_count |-> Len(pushed)]],
     coord_bin_indices |-> b.coord_bin_indices \o pushed]

\* The two loops, for the cells lo .. hi in the order the loops visit them:
\* cell c is (i, j) = (c / 16, c % 16).
RECURSIVE BinLoop(_, _, _, _, _, _)
BinLoop(b, hulls, xs, ys, lo, hi) ==
    IF lo = hi
    THEN BinCell(b, ((lo \div 16) * 16) + (lo % 16),
                 HullsIn(hulls, xs, ys, lo \div 16, lo % 16))
    ELSE Only({BinLoop(left, hulls, xs, ys, ((lo + hi) \div 2) + 1, hi) :
                  left \in {BinLoop(b, hulls, xs, ys, lo, (lo + hi) \div 2)}})

\* DIFBuilder::export_coord_bins: 256 bins { bin_start: i, bin_count: 1 }
\* are pushed, then every bin is set from the hulls over its cell.
CoordBins(it) ==
    Only({BinLoop([coord_bins |-> it.coord_bins
                                  \o [c \in 1..256 |-> [bin_start |-> c - 1,
                                                        bin_count |-> 1]],
                   coord_bin_indices |-> it.coord_bin_indices],
                  it.convex_hulls, xs, ys, 0, 255) :
             xs \in {CellBounds(it.bounding_box.min[1], extent(it.bounding_box)[1])},
             ys \in {CellBounds(it.bounding_box.min[2], extent(it.bounding_box)[2])}})

WithBins(b, bins) ==
    [b EXCEPT !.interior.coord_bins = bins.coord_bins,
              !.interior.coord_bin_indices = bins.coord_bin_indices]

export_coord_bins(b) == WithBins(b, CoordBins(b.interior))

\* ------------------------------------------ calculate_bsp_raycast_coverage
\* Interior::bsp_ray_cast.  plane_index is a u16.
RECURSIVE bsp_ray_cast(_, _, _, _, _)
RayIntersect(start, end, plane_norm, plane_d) ==
    VAdd(start, VScale(VSub(end, start),
                       FDiv(FSub(FNeg(plane_d), Dot(start, plane_norm)),
                            Dot(VSub(end, start), plane_norm))))

RaySides(it, node_value, plane_index, start, end, s_side, e_side, ip) ==
    IF (s_side = 1 /\ e_side >= 0) \/ (s_side = 0 /\ e_side = 1)
    THEN bsp_ray_cast(it, node_value.front_index, plane_index, start, end)
    ELSE IF s_side = 1 /\ e_side = -1
    THEN \/ bsp_ray_cast(it, node_value.front_index, plane_index, start, ip)
         \/ bsp_ray_cast(it, node_value.back_index, node_value.plane_index, ip, end)
    ELSE IF s_side = -1 /\ e_side = 1
    THEN \/ bsp_ray_cast(it, node_value.back_index, plane_index, start, ip)
         \/ bsp_ray_cast(it, node_value.front_index, node_value.plane_index, ip, end)
    ELSE IF s_side = 0 /\ e_side = 0
    THEN \/ bsp_ray_cast(it, node_value.front_index, plane_index, start, end)
         \/ bsp_ray_cast(it, node_value.back_index, plane_index, start, end)
    ELSE bsp_ray_cast(it, node_value.back_index, plane_index, start, end)

RayNode(it, node_value, plane_index, start, end, plane_norm, plane_d) ==
    RaySides(it, node_value, plane_index, start, end,
             total_cmp(FAdd(Dot(plane_norm, start), plane_d), FInt(0)),
             total_cmp(FAdd(Dot(plane_norm, end), plane_d), FInt(0)),
             RayIntersect(start, end, plane_norm, plane_d))

bsp_ray_cast(it, node, plane_index, start, end) ==
    IF ~node.leaf
    THEN RayNode(it, it.bsp_nodes[node.index + 1], plane_index, start, end,
            IF it.bsp_nodes[node.index + 1].plane_index >= FLIPPED
            THEN VScale(it.normals[it.planes[(it.bsp_nodes[node.index + 1].plane_index
                                              % FLIPPED) + 1].normal_index + 1], FInt(-1))
            ELSE it.normals[it.planes[(it.bsp_nodes[node.index + 1].plane_index
                                       % FLIPPED) + 1].normal_index + 1],
            IF it.bsp_nodes[node.index + 1].plane_index >= FLIPPED
            THEN FNeg(it.planes[(it.bsp_nodes[node.index + 1].plane_index
                                 % FLIPPED) + 1].plane_distance)
            ELSE it.planes[(it.bsp_nodes[node.index + 1].plane_index
                            % FLIPPED) + 1].plane_distance)
    ELSE IF node.solid
    THEN \E k \in 1..it.bsp_solid_leaves[node.index + 1].surface_count :
            /\ ~it.solid_leaf_surfaces[it.bsp_solid_leaves[node.index + 1].surface_index
                                       + k].null
            /\ it.surfaces[it.solid_leaf_surfaces[
                               it.bsp_solid_leaves[node.index + 1].surface_index + k].index
                           + 1].plane_index % FLIPPED
               = plane_index % FLIPPED
    ELSE FALSE

\* The points of the winding of surface s.
SurfacePoints(it, s) ==
    SubSeq([k \in 1..s.winding_count |-> it.points[it.indices[s.winding_start + k] + 1]],
           1, s.winding_count)

\* points.iter().sum() over the first k points.
RECURSIVE VSum(_, _)
VSum(points, k) ==
    IF k = 0 THEN Pt(0, 0, 0) ELSE VAdd(VSum(points, k - 1), points[k])

\* surface_area after the first k turns of the loop.
RECURSIVE FanArea(_, _, _)
FanArea(points, avg_point, k) ==
    IF k = 0 THEN FInt(0)
    ELSE FAdd(FanArea(points, avg_point, k - 1),
              FDiv(Magnitude(Cross(VSub(points[k], avg_point),
                                   VSub(points[(k % Len(points)) + 1], avg_point))),
                   FInt(2)))

\* What the closure does for one surface: its area, and whether its ray
\* hits.  norm is the normal of its plane, turned when plane_flipped.
RayOf(it, avg_point, norm, fan_area) ==
    [area |-> fan_area,
     hit |-> bsp_ray_cast(it, [leaf |-> FALSE, solid |-> FALSE, index |-> 0], 65535,
                          VAdd(avg_point, VScale(norm, FDec(1, 10))),
                          VSub(avg_point, VScale(norm, FDec(1, 10))))]

SurfaceRayAt(it, s, points, avg_point) ==
    RayOf(it, avg_point,
          VScale(it.normals[it.planes[(s.plane_index % FLIPPED) + 1].normal_index + 1],
                 IF s.plane_flipped THEN FInt(-1) ELSE FInt(1)),
          FanArea(points, avg_point, Len(points)))

SurfaceRay(it, s, points) ==
    SurfaceRayAt(it, s, points, VDiv(VSum(points, Len(points)), FInt(s.winding_count)))

SurfaceRays(it) ==
    SubSeq([k \in 1..Len(it.surfaces) |->
               SurfaceRay(it, it.surfaces[k], SurfacePoints(it, it.surfaces[k]))],
           1, Len(it.surfaces))

\* total_surface_area (hits = FALSE) or hit_surface_area (hits = TRUE):
\* the sum acc after the surfaces lo .. hi.
RECURSIVE AreaSum(_, _, _, _, _)
AreaSum(acc, rays, hits, lo, hi) ==
    IF lo > hi THEN acc
    ELSE IF lo = hi
    THEN (IF hits /\ ~rays[lo].hit THEN acc ELSE FAdd(acc, rays[lo].area))
    ELSE Only({AreaSum(left, rays, hits, ((lo + hi) \div 2) + 1, hi) :
                  left \in {AreaSum(acc, rays, hits, lo, (lo + hi) \div 2)}})

BSPReport(rays) ==
    [hit |-> Cardinality({k \in 1..Len(rays) : rays[k].hit}),
     balance_factor |-> 0,
     total |-> Len(rays),
     hit_area_percentage |->
         FMul(FDiv(AreaSum(FInt(0), rays, TRUE, 1, Len(rays)),
                   AreaSum(FInt(0), rays, FALSE, 1, Len(rays))),
              FInt(100))]

\* Interior::calculate_bsp_raycast_coverage.
calculate_bsp_raycast_coverage(it) == BSPReport(SurfaceRays(it))

\* ------------------------------------------------------------------- build
\* DIFBuilder::build up to the call of build_bsp: the bounding volumes and
\* the hulls of export_brushes.
build_begin(b) ==
    Only({ExportHulls([b EXCEPT
                         !.interior.bounding_box = Padded(get_bounding_box(b.brushes)),
                         !.interior.bounding_sphere = get_bounding_sphere(b.brushes)],
                      grouped, 1, Len(grouped)) :
             grouped \in {group_polys(b)}})

\* The rest of export_brushes once build_bsp has returned the tree.
export_brushes_end(b, tree) ==
    export_bsp_node([b EXCEPT !.bsp_report.balance_factor = balance_factor(tree, 1)],
                    tree, 1).b

\* build after export_brushes, for a builder with mb_only set: the zone,
\* the coord bins and the one-element lists.
build_lists(b) ==
    [export_coord_bins(
        [b EXCEPT !.interior.zones =
            Append(@, [portal_start |-> 0, portal_count |-> 0, surface_start |-> 0,
                       surface_count |-> U16(Len(b.interior.surfaces)),
                       static_mesh_start |-> 0, static_mesh_count |-> 0,
                       flags |-> 0])])
     EXCEPT !.interior.poly_list_plane_indices = Append(@, 0),
            !.interior.poly_list_point_indices = Append(@, 0),
            !.interior.poly_list_string_characters = Append(@, 0),
            !.interior.hull_plane_indices = Append(@, 0),
            !.interior.hull_emit_string_indices = Append(@, 0),
            !.interior.convex_hull_emit_string_characters = Append(@, 0)]

\* The report build returns: the coverage, with the balance factor kept.
build_report(b) ==
    [b EXCEPT !.bsp_report =
        [calculate_bsp_raycast_coverage(b.interior)
         EXCEPT !.balance_factor = b.bsp_report.balance_factor]]

build_end(b, tree) == build_report(build_lists(export_brushes_end(b, tree)))

\* ------------------------------------------------------- calls of the builder
\* v * (1 / |v|): the unit normal a caller computes for a face.
Unit(v) == VScale(v, FDiv(FInt(1), Magnitude(v)))

\* One add_triangle call: the vertices, the normal and the material.
Tri(v1, v2, v3, norm, material) ==
    [verts |-> <<v1, v2, v3>>, norm |-> norm, material |-> material]

\* The 12 triangles of the unit cube, outward normals.
Cube ==
    << Tri(Pt(0, 0, 0), Pt(1, 1, 0), Pt(1, 0, 0), Pt(0, 0, -1), "Default"),
       Tri(Pt(0, 0, 0), Pt(0, 1, 0), Pt(1, 1, 0), Pt(0, 0, -1), "Default"),
       Tri(Pt(0, 0, 1), Pt(1, 0, 1), Pt(1, 1, 1), Pt(0, 0, 1), "Default"),
       Tri(Pt(0, 0, 1), Pt(1, 1, 1), Pt(0, 1, 1), Pt(0, 0, 1), "Default"),
       Tri(Pt(0, 0, 0), Pt(0, 0, 1), Pt(0, 1, 1), Pt(-1, 0, 0), "Default"),
       Tri(Pt(0, 0, 0), Pt(0, 1, 1), Pt(0, 1, 0), Pt(-1, 0, 0), "Default"),
       Tri(Pt(1, 0, 0), Pt(1, 1, 0), Pt(1, 1, 1), Pt(1, 0, 0), "Default"),
       Tri(Pt(1, 0, 0), Pt(1, 1, 1), Pt(1, 0, 1), Pt(1, 0, 0), "Default"),
       Tri(Pt(0, 0, 0), Pt(1, 0, 0), Pt(1, 0, 1), Pt(0, -1, 0), "Default"),
       Tri(Pt(0, 0, 0), Pt(1, 0, 1), Pt(0, 0, 1), Pt(0, -1, 0), "Default"),
       Tri(Pt(0, 1, 0), Pt(0, 1, 1), Pt(1, 1, 1), Pt(0, 1, 0), "Default"),
       Tri(Pt(0, 1, 0), Pt(1, 1, 1), Pt(1, 1, 0), Pt(0, 1, 0), "Default") >>

\* A flat tetrahedron, outward normals: two faces meet along the y axis at
\* an angle of 1.8 degrees off the plane, the other two close it below.
Wedge ==
    << Tri(Pt(0, -8, 0), Pt(0, 8, 0), Pt(-64, 0, -1), Unit(Pt(-1, 0, 64)), "Default"),
       Tri(Pt(0, -8, 0), Pt(64, 0, -1), Pt(0, 8, 0), Unit(Pt(1, 0, 64)), "Default"),
       Tri(Pt(0, -8, 0), Pt(-64, 0, -1), Pt(64, 0, -1), Unit(Pt(0, -1, -8)), "Default"),
       Tri(Pt(0, 8, 0), Pt(64, 0, -1), Pt(-64, 0, -1), Unit(Pt(0, 1, -8)), "Default") >>

\* Three triangles that cross one another, one of them of the material
\* NULL.
Crossing ==
    << Tri(Pt(-2, -1, 0), Pt(2, -1, 0), Pt(0, 2, 0), Pt(0, 0, 1), "Default"),
       Tri(Pt(0, -1, -2), Pt(0, -1, 2), Pt(0, 1, 0), Pt(1, 0, 0), "NULL"),
       Tri(Pt(-1, 0, -1), Pt(3, 0, -1), Pt(-1, 0, 3), Pt(0, 1, 0), "Stone") >>

\* The regular tetrahedron on four corners of the cube [-1, 1]^3, outward
\* normals.
Tetrahedron ==
    << Tri(Pt(1, -1, -1), Pt(-1, -1, 1), Pt(-1, 1, -1), Unit(Pt(-1, -1, -1)), "Default"),
       Tri(Pt(1, 1, 1), Pt(-1, 1, -1), Pt(-1, -1, 1), Unit(Pt(-1, 1, 1)), "Default"),
       Tri(Pt(1, 1, 1), Pt(-1, -1, 1), Pt(1, -1, -1), Unit(Pt(1, -1, 1)), "Default"),
       Tri(Pt(1, 1, 1), Pt(1, -1, -1), Pt(-1, 1, -1), Unit(Pt(1, 1, -1)), "Default") >>

\* Two triangles over one another whose supplied normal is not of unit
\* length: the zero vector, and a vector of length 2.
Malformed ==
    << Tri(Pt(-2, -1, 0), Pt(2, -1, 0), Pt(0, 2, 0), Pt(0, 0, 0), "Default"),
       Tri(Pt(-2, -1, 1), Pt(2, -1, 1), Pt(0, 2, 1), Pt(0, 0, 2), "Default") >>

\* The two sides of one sheet: a triangle and the same triangle wound the
\* other way, with the opposite normal.
Sheet ==
    << Tri(Pt(-2, -1, 0), Pt(2, -1, 0), Pt(0, 2, 0), Pt(0, 0, 1), "Default"),
       Tri(Pt(-2, -1, 0), Pt(0, 2, 0), Pt(2, -1, 0), Pt(0, 0, -1), "Default") >>

\* The meshes handed to the builder: none, one triangle, one triangle of
\* the material NULL, two and three crossing triangles, the wedge, the
\* tetrahedron, the cube, the sheet and the triangles with a normal that
\* is not a unit vector.
Meshes ==
    {<<>>, SubSeq(Crossing, 1, 1), SubSeq(Crossing, 2, 2), SubSeq(Crossing, 1, 2),
     Crossing, Wedge, Tetrahedron, Cube, Sheet, SubSeq(Malformed, 1, 1), Malformed}

\* The meshes of the runs that build the tree twice.
TwiceMeshes == {SubSeq(Crossing, 1, 2), Crossing, Wedge}

\* ------------------------------------------------------------------ actions
\* builder.add_triangle(...) for the next triangle of the input.
AddTriangle ==
    /\ pc = "new"
    /\ input # <<>>
    /\ builder' = add_triangle(builder, Head(input).verts[1], Head(input).verts[2],
                               Head(input).verts[3], <<FInt(0), FInt(0)>>,
                               <<FInt(0), FInt(0)>>, <<FInt(0), FInt(0)>>,
                               Head(input).norm, Head(input).material)
    /\ input' = Tail(input)
    /\ UNCHANGED <<twin, calls, clipVars, pc, split_method, MB_ONLY, bsp, rerun, ratingVars, ioVars, hullVars, progressVars>>

\* builder.build(...) is called: the bounding volumes, the hulls, and
\* build_bsp up to the first split.
BeginBuild ==
    /\ pc = "new"
    /\ input = <<>>
    /\ builder.mb_only
    /\ builder' = build_begin(builder)
    /\ bsp' = build_bsp(builder.brushes)
    /\ pc' = "bsp"
    /\ UNCHANGED <<twin, calls, clipVars, input, split_method, MB_ONLY, rerun, ratingVars, ioVars, hullVars, progressVars>>

\* split_new_impl of the next node: the splitter is selected and the node
\* split.  A failed assertion of clip_plane ends the run.
SplitStep ==
    /\ pc = "bsp"
    /\ bsp.ok
    /\ bsp.stack # <<>>
    /\ \E split_plane \in Splitters(bsp, Head(bsp.stack), split_method) :
          bsp' = split_new_impl(bsp, Head(bsp.stack), split_plane)
    /\ UNCHANGED <<exportVars, clipVars, pc, input, split_method, MB_ONLY, rerun, ratingVars, ioVars, hullVars, progressVars>>

\* build_bsp has returned: the tree is exported and build returns.
EndBuild ==
    /\ pc = "bsp"
    /\ bsp.ok
    /\ bsp.stack = <<>>
    /\ Len(rerun.nodes) = 0
    /\ builder' = build_end(builder, bsp)
    /\ pc' = "done"
    /\ UNCHANGED <<twin, calls, clipVars, input, split_method, MB_ONLY, bsp, rerun, ratingVars, ioVars, hullVars, progressVars>>

\* build_bsp is run again on the same triangles.
RerunBegin ==
    /\ pc = "bsp"
    /\ bsp.ok
    /\ bsp.stack = <<>>
    /\ Len(rerun.nodes) = 0
    /\ rerun' = build_bsp(builder.brushes)
    /\ UNCHANGED <<exportVars, clipVars, pc, input, split_method, MB_ONLY, bsp, ratingVars, ioVars, hullVars, progressVars>>

RerunSplit ==
    /\ pc = "bsp"
    /\ rerun.ok
    /\ rerun.stack # <<>>
    /\ \E split_plane \in Splitters(rerun, Head(rerun.stack), split_method) :
          rerun' = split_new_impl(rerun, Head(rerun.stack), split_plane)
    /\ UNCHANGED <<exportVars, clipVars, pc, input, split_method, MB_ONLY, bsp, ratingVars, ioVars, hullVars, progressVars>>

InitBuild ==
    /\ builder = DIFBuilder_new(TRUE)
    /\ twin = DIFBuilder_new(TRUE)
    /\ calls = <<>>
    /\ brush = <<>>
    /\ clips = <<>>
    /\ pc = "new"
    /\ input \in Meshes
    /\ split_method \in {"Fast", "Exhaustive"}
    /\ input = Cube => split_method = "Fast"
    /\ MB_ONLY = TRUE
    /\ bsp = NoTree
    /\ rerun = NoTree
    /\ NoRating
    /\ NoIO
    /\ NoHull
    /\ NoProgress

NextBuild == AddTriangle \/ BeginBuild \/ SplitStep \/ EndBuild

SpecBuild == InitBuild /\ [][NextBuild]_vars

InitTwice ==
    /\ builder = DIFBuilder_new(TRUE)
    /\ twin = DIFBuilder_new(TRUE)
    /\ calls = <<>>
    /\ brush = <<>>
    /\ clips = <<>>
    /\ pc = "new"
    /\ input \in TwiceMeshes
    /\ split_method = "Fast"
    /\ MB_ONLY = TRUE
    /\ bsp = NoTree
    /\ rerun = NoTree
    /\ NoRating
    /\ NoIO
    /\ NoHull
    /\ NoProgress

NextTwice == AddTriangle \/ BeginBuild \/ SplitStep \/ RerunBegin \/ RerunSplit

SpecDeterminism == InitTwice /\ [][NextTwice]_vars

\* ------------------------------------------------- the exported build call
\* The meshes of the runs that start at the exported build function.
ConfiguredMeshes == {<<>>, SubSeq(Crossing, 1, 1), SubSeq(Crossing, 1, 2), Crossing}

\* build(ptr, mb_only, bsp_mode, ...) of the C interface up to its loop
\* over the triangles: set_convert_configuration stores mb_only in the
\* static MB_ONLY and the split method of bsp_mode in BSP_CONFIG, and the
\* builder is made by DIFBuilder::new(true).
SetConvertConfiguration ==
    /\ pc = "config"
    /\ \E mb_only \in BOOLEAN, bsp_mode \in 0..1 :
          /\ MB_ONLY' = mb_only
          /\ split_method' = IF bsp_mode = 0 THEN "Fast" ELSE "Exhaustive"
    /\ builder' = DIFBuilder_new(TRUE)
    /\ pc' = "new"
    /\ UNCHANGED <<twin, calls, clipVars, input, bsp, rerun, ratingVars, ioVars, hullVars, progressVars>>

InitConfigured ==
    /\ builder = DIFBuilder_new(TRUE)
    /\ twin = DIFBuilder_new(TRUE)
    /\ calls = <<>>
    /\ brush = <<>>
    /\ clips = <<>>
    /\ pc = "config"
    /\ input \in ConfiguredMeshes
    /\ split_method = "Fast"
    /\ MB_ONLY = TRUE
    /\ bsp = NoTree
    /\ rerun = NoTree
    /\ NoRating
    /\ NoIO
    /\ NoHull
    /\ NoProgress

NextConfigured ==
    SetConvertConfiguration \/ AddTriangle \/ BeginBuild \/ SplitStep \/ EndBuild

SpecConfigured == InitConfigured /\ [][NextConfigured]_vars

\* ------------------------------------------------- properties of the build
\* The solid leaves (positions from 0 in bsp_solid_leaves) under a BSPIndex,
\* and those reachable from bsp_nodes[0].
RECURSIVE LeavesUnder(_, _)
LeavesUnder(it, node) ==
    IF ~node.leaf
    THEN LeavesUnder(it, it.bsp_nodes[node.index + 1].front_index)
         \cup LeavesUnder(it, it.bsp_nodes[node.index + 1].back_index)
    ELSE IF node.solid THEN {node.index}
    ELSE {}

ReachableLeaves(it) ==
    IF Len(it.bsp_nodes) = 0 THEN {}
    ELSE LeavesUnder(it, [leaf |-> FALSE, solid |-> FALSE, index |-> 0])

\* The entries of solid_leaf_surfaces in the range of a solid leaf.
LeafSurfaces(it, leaf) ==
    {it.solid_leaf_surfaces[it.bsp_solid_leaves[leaf + 1].surface_index + q] :
        q \in 1..it.bsp_solid_leaves[leaf + 1].surface_count}

\* The entry s of a surface table is the triangle t: its winding is the
\* three points of t.
IsSurfaceOf(it, s, t) ==
    /\ s.winding_count = 3
    /\ \A c \in 1..3 : OrdPoint_eq(it.points[it.indices[s.winding_start + c] + 1],
                                   t.verts[c])

\* The triangle t of the builder b is in the surface table of its material
\* at the index val that face_to_surface holds for it, no other triangle is
\* at that index, and a reachable solid leaf holds val.
TriangleExported(b, t, val) ==
    /\ val.null = (t.material = "NULL")
    /\ val.index < (IF val.null THEN Len(b.interior.null_surfaces)
                    ELSE Len(b.interior.surfaces))
    /\ IsSurfaceOf(b.interior,
                   IF val.null THEN b.interior.null_surfaces[val.index + 1]
                   ELSE b.interior.surfaces[val.index + 1], t)
    /\ \A e \in 1..Len(b.face_to_surface) :
          b.face_to_surface[e].val = val => b.face_to_surface[e].key = t.id
    /\ \E leaf \in ReachableLeaves(b.interior) : val \in LeafSurfaces(b.interior, leaf)

\* C3: after build (Fast or Exhaustive) every triangle added is in exactly
\* one entry of the surface table of its material (null_surfaces for NULL,
\* surfaces otherwise), the tables hold nothing else, and the index of that
\* entry is in solid_leaf_surfaces in the range of a solid leaf that is
\* reachable from bsp_nodes[0].
C3_EveryTriangleInOneSurfaceAndASolidLeaf ==
    pc = "done" =>
        /\ Len(builder.interior.surfaces) + Len(builder.interior.null_surfaces)
           = Len(builder.brushes)
        /\ \A k \in 1..Len(builder.brushes) :
              /\ Cardinality(FaceFind(builder.face_to_surface, builder.brushes[k].id)) = 1
              /\ \A e \in FaceFind(builder.face_to_surface, builder.brushes[k].id) :
                    TriangleExported(builder, builder.brushes[k],
                                     builder.face_to_surface[e].val)

\* A build has ended on a mesh with a NULL and another triangle, where a
\* triangle was split: the leaves hold more surfaces than there are
\* triangles.
C3_Witness ==
    /\ pc = "done"
    /\ \E k \in 1..Len(builder.brushes) : builder.brushes[k].material = "NULL"
    /\ \E k \in 1..Len(builder.brushes) : builder.brushes[k].material # "NULL"
    /\ Len(builder.interior.bsp_solid_leaves) > 1
    /\ Len(builder.interior.solid_leaf_surfaces) > Len(builder.brushes)

\* The mesh is closed: every edge of a triangle is an edge of exactly two
\* triangles.
Edges(t) ==
    {{t.verts[1], t.verts[2]}, {t.verts[2], t.verts[3]}, {t.verts[3], t.verts[1]}}

Closed(brushes) ==
    /\ Len(brushes) > 0
    /\ \A k \in 1..Len(brushes) : \A e \in Edges(brushes[k]) :
          Cardinality({k2 \in 1..Len(brushes) : e \in Edges(brushes[k2])}) = 2

\* The mesh is convex with outward normals: no vertex lies in front of the
\* plane of any triangle.
Outward(brushes) ==
    \A k \in 1..Len(brushes), k2 \in 1..Len(brushes), c \in 1..3 :
        ~FLt(EPSILON, PlaneDot(brushes[k].plane, brushes[k2].verts[c]))

\* C4: for a convex closed mesh with outward normals the report of build
\* has hit / total >= 99 percent.
C4_ConvexMeshIsCovered ==
    (pc = "done" /\ Closed(builder.brushes) /\ Outward(builder.brushes))
        => builder.bsp_report.hit * 100 >= 99 * builder.bsp_report.total

\* The hulls (positions from 0) a bin refers to.
BinHulls(it, bin) ==
    {it.coord_bin_indices[it.coord_bins[bin + 1].bin_start + q] :
        q \in 1..it.coord_bins[bin + 1].bin_count}

\* The xy extent of hull k overlaps the cell (i, j) of the 16 x 16 grid
\* over the bounding box; xs and ys are the bounds of the cells.
HullOverCell(it, xs, ys, k, i, j) ==
    /\ FLe(xs[i + 1], it.convex_hulls[k + 1].max_x)
    /\ FLe(it.convex_hulls[k + 1].min_x, xs[i + 2])
    /\ FLe(ys[j + 1], it.convex_hulls[k + 1].max_y)
    /\ FLe(it.convex_hulls[k + 1].min_y, ys[j + 2])

BinsMatch(it, xs, ys) ==
    /\ \A i \in 0..15, j \in 0..15 :
          /\ it.coord_bins[(i * 16) + j + 1].bin_start
             + it.coord_bins[(i * 16) + j + 1].bin_count <= Len(it.coord_bin_indices)
          /\ BinHulls(it, (i * 16) + j)
             = {k \in 0..(Len(it.convex_hulls) - 1) : HullOverCell(it, xs, ys, k, i, j)}
    /\ \A k \in 0..(Len(it.convex_hulls) - 1) : \E bin \in 0..255 : k \in BinHulls(it, bin)

\* C8: after build there are 256 bins, the slice of coord_bin_indices of
\* the bin i * 16 + j is exactly the set of the hulls whose xy extent
\* overlaps the cell (i, j), and every hull is in some bin.
C8_BinsHoldTheHullsOverTheirCells ==
    pc = "done" =>
        /\ Len(builder.interior.coord_bins) = 256
        /\ \A xs \in {CellBounds(builder.interior.bounding_box.min[1],
                                 extent(builder.interior.bounding_box)[1])},
              ys \in {CellBounds(builder.interior.bounding_box.min[2],
                                 extent(builder.interior.bounding_box)[2])} :
              BinsMatch(builder.interior, xs, ys)

\* A build has ended with several hulls, a bin that holds two of them and
\* a bin that holds none.
C8_Witness ==
    /\ pc = "done"
    /\ Len(builder.interior.convex_hulls) > 1
    /\ \E bin \in 1..256 : builder.interior.coord_bins[bin].bin_count > 1
    /\ \E bin \in 1..256 : builder.interior.coord_bins[bin].bin_count = 0

\* C9: with SplitMethod::Fast a second run of build_bsp on the same
\* triangles ends with the same tree as the first: the same splitter plane
\* at every node, the same brushes in every leaf.
C9_SecondRunBuildsTheSameTree ==
    (Len(rerun.nodes) > 0 /\ rerun.ok /\ rerun.stack = <<>>) => rerun.nodes = bsp.nodes

\* ------------------------------------------------- properties of the tree
\* The triangles are the four faces of a regular tetrahedron: four
\* triangles of the material Default that close on one another, outward
\* normals, all edges of one length.
SquaredLength(v) == Dot(v, v)

RegularTetrahedron(brushes) ==
    /\ Len(brushes) = 4
    /\ Closed(brushes)
    /\ Outward(brushes)
    /\ \A k \in 1..4 : brushes[k].material = "Default"
    /\ \A k \in 1..4, c \in 1..3 :
          SquaredLength(VSub(brushes[k].verts[c], brushes[k].verts[(c % 3) + 1]))
              = SquaredLength(VSub(brushes[1].verts[1], brushes[1].verts[2]))

\* C12: for the four triangles of a regular tetrahedron the balance_factor
\* of the report, height(front) - height(back) at the root of the tree, is
\* -1, 0 or 1.
C12_TetrahedronIsBalanced ==
    (pc = "done" /\ RegularTetrahedron(builder.brushes))
        => builder.bsp_report.balance_factor \in {-1, 0, 1}

\* C12, as the tree comes out: every face of the tetrahedron lies behind
\* or on the plane of every other, so the tree is a chain of four inner
\* nodes down the back side and the balance_factor of the report is -4;
\* the four rays of the coverage test hit.
C12_TetrahedronIsAChain ==
    (pc = "done" /\ RegularTetrahedron(builder.brushes))
        => /\ builder.bsp_report.balance_factor = -4
           /\ builder.bsp_report.hit = 4
           /\ builder.bsp_report.total = 4
           /\ Len(builder.interior.surfaces) = 4
           /\ Len(builder.interior.planes) = 4
           /\ Len(builder.interior.points) = 4

\* The build of the regular tetrahedron has ended.
C12_Witness == pc = "done" /\ RegularTetrahedron(builder.brushes)

\* The vector has unit length: its squared length is 1 up to the rounding
\* of a normalisation in f32.
UnitLength(v) == abs_diff_eq(Dot(v, v), FInt(1), POINT_EPSILON)

\* C15: add_triangle rejects a triangle whose normal is not of unit
\* length: no brush has such a normal, and so no plane and no surface of
\* the interior comes from one.
C15_NonUnitNormalIsRejected ==
    /\ \A k \in 1..Len(builder.brushes) : UnitLength(builder.brushes[k].plane.normal)
    /\ \A i \in 1..Len(builder.interior.normals) : UnitLength(builder.interior.normals[i])

\* plane_index & 0x7FFF of a 16-bit plane index.
PlaneOf(plane_index) == plane_index % FLIPPED

\* C16: in every state of the builder's interior the normal_index of every
\* plane is below normals.len(), and plane_index & 0x7FFF of every surface,
\* every null surface and every BSP node is below planes.len().
C16_IndicesAreInRange ==
    /\ \A i \in 1..Len(builder.interior.planes) :
          /\ builder.interior.planes[i].normal_index >= 0
          /\ builder.interior.planes[i].normal_index < Len(builder.interior.normals)
    /\ \A i \in 1..Len(builder.interior.surfaces) :
          PlaneOf(builder.interior.surfaces[i].plane_index) < Len(builder.interior.planes)
    /\ \A i \in 1..Len(builder.interior.null_surfaces) :
          PlaneOf(builder.interior.null_surfaces[i].plane_index)
              < Len(builder.interior.planes)
    /\ \A i \in 1..Len(builder.interior.bsp_nodes) :
          PlaneOf(builder.interior.bsp_nodes[i].plane_index) < Len(builder.interior.planes)

\* A build has ended with a surface on a flipped plane, a plane that
\* shares its normal with no other, and a BSP node.
C16_Witness ==
    /\ pc = "done"
    /\ \E i \in 1..Len(builder.interior.surfaces) :
          builder.interior.surfaces[i].plane_index >= FLIPPED
    /\ Len(builder.interior.planes) > 0
    /\ Len(builder.interior.bsp_nodes) > 0

\* The class of a brush against the split plane, from the side of its
\* vertices: "on" when the brush is of the plane itself or has every vertex
\* within epsilon of it, "front" or "back" when vertices lie beyond epsilon
\* on that side only, "spanning" otherwise.
ClassOf(b, split_plane, plane_list) ==
    IF b.plane_id = split_plane THEN "on"
    ELSE IF \A i \in 1..Len(b.indices) :
               /\ ~FLt(EPSILON, PlaneDot(plane_list[split_plane + 1],
                                         b.vertices[b.indices[i] + 1]))
               /\ ~FLt(PlaneDot(plane_list[split_plane + 1],
                                b.vertices[b.indices[i] + 1]), FNeg(EPSILON))
    THEN "on"
    ELSE IF \A i \in 1..Len(b.indices) :
               ~FLt(PlaneDot(plane_list[split_plane + 1],
                             b.vertices[b.indices[i] + 1]), FNeg(EPSILON))
    THEN "front"
    ELSE IF \A i \in 1..Len(b.indices) :
               ~FLt(EPSILON, PlaneDot(plane_list[split_plane + 1],
                                      b.vertices[b.indices[i] + 1]))
    THEN "back"
    ELSE "spanning"

\* The brushes of the child at position child of the tree (0 is None), and
\* those of them that come from the triangle id.
BrushesOf(tree, child) == IF child = 0 THEN <<>> ELSE tree.nodes[child].brush_list

PiecesOf(brushes, id) == {k \in 1..Len(brushes) : brushes[k].id = id}

\* The brush b of the node is where its class puts it: front and back are
\* the brush lists of the children after the split on split_plane.
PlacedByClass(b, class, split_plane, plane_list, front, back) ==
    CASE class = "on" ->
            /\ PiecesOf(front, b.id) = {}
            /\ \A k \in PiecesOf(back, b.id) : back[k] = [b EXCEPT !.used_plane = TRUE]
            /\ Cardinality(PiecesOf(back, b.id)) = 1
      [] class = "front" ->
            /\ PiecesOf(back, b.id) = {}
            /\ \A k \in PiecesOf(front, b.id) : front[k] = b
            /\ Cardinality(PiecesOf(front, b.id)) = 1
      [] class = "back" ->
            /\ PiecesOf(front, b.id) = {}
            /\ \A k \in PiecesOf(back, b.id) : back[k] = b
            /\ Cardinality(PiecesOf(back, b.id)) = 1
      [] class = "spanning" ->
            /\ Cardinality(PiecesOf(front, b.id)) <= 1
            /\ Cardinality(PiecesOf(back, b.id)) <= 1
            /\ \A k \in PiecesOf(front, b.id) :
                  /\ Len(front[k].indices) > 2
                  /\ \A i \in 1..Len(front[k].indices) :
                        ~FLt(PlaneDot(plane_list[split_plane + 1],
                                      front[k].vertices[front[k].indices[i] + 1]),
                             FNeg(FMul(FInt(10), EPSILON)))
            /\ \A k \in PiecesOf(back, b.id) :
                  /\ Len(back[k].indices) > 2
                  /\ \A i \in 1..Len(back[k].indices) :
                        ~FLt(FMul(FInt(10), EPSILON),
                             PlaneDot(plane_list[split_plane + 1],
                                      back[k].vertices[back[k].indices[i] + 1]))
            /\ PiecesOf(front, b.id) = {}
                  => Len(split(b, split_plane, plane_list).front_brush.indices) <= 2
            /\ PiecesOf(back, b.id) = {}
                  => Len(split(b, split_plane, plane_list).back_brush.indices) <= 2

\* The split of node n that takes the tree from before to after placed
\* every brush of the node by its class, nothing else is in the children,
\* and the node holds no brush any more.
SplitPlaces(before, after, n) ==
    /\ after.nodes[n].plane_index # -1
    /\ after.nodes[n].brush_list = <<>>
    /\ \A k \in 1..Len(before.nodes[n].brush_list) :
          PlacedByClass(before.nodes[n].brush_list[k],
                        ClassOf(before.nodes[n].brush_list[k],
                                after.nodes[n].plane_index, before.plane_list),
                        after.nodes[n].plane_index, before.plane_list,
                        BrushesOf(after, after.nodes[n].front),
                        BrushesOf(after, after.nodes[n].back))
    /\ \A k \in 1..Len(BrushesOf(after, after.nodes[n].front)) :
          \E j \in 1..Len(before.nodes[n].brush_list) :
              before.nodes[n].brush_list[j].id
                  = BrushesOf(after, after.nodes[n].front)[k].id
    /\ \A k \in 1..Len(BrushesOf(after, after.nodes[n].back)) :
          \E j \in 1..Len(before.nodes[n].brush_list) :
              before.nodes[n].brush_list[j].id
                  = BrushesOf(after, after.nodes[n].back)[k].id

\* C19: a split of a node on plane p places every brush of the node by its
\* class: on p (same plane id, or every vertex within epsilon) to the back
\* child only, with used_plane set; in front to the front child only;
\* behind to the back child only; spanning clipped into a front and a back
\* piece that are kept when they have more than 2 vertices; and the node's
\* own brush_list is empty afterwards.
C19_SplitPlacesEveryBrushByClass ==
    [][(pc = "bsp" /\ bsp.stack # <<>> /\ bsp' # bsp /\ bsp'.ok)
          => SplitPlaces(bsp, bsp', Head(bsp.stack))]_vars

\* A node was split whose brushes went to both children, one of them on
\* the split plane without being of it, one of them cut in two.
C19_Witness ==
    /\ pc = "bsp"
    /\ \E n \in 1..Len(bsp.nodes) :
          /\ bsp.nodes[n].front # 0
          /\ bsp.nodes[n].back # 0
          /\ \E k \in 1..Len(bsp.nodes[bsp.nodes[n].front].brush_list) :
                Len(bsp.nodes[bsp.nodes[n].front].brush_list[k].indices) > 3
    /\ \E n \in 1..Len(bsp.nodes) :
          /\ bsp.nodes[n].back # 0
          /\ \E k \in 1..Len(bsp.nodes[bsp.nodes[n].back].brush_list) :
                /\ bsp.nodes[bsp.nodes[n].back].brush_list[k].used_plane
                /\ bsp.nodes[bsp.nodes[n].back].brush_list[k].plane_id
                      # bsp.nodes[n].plane_index

\* C20: a node is split exactly when it holds a brush with used_plane
\* false.  The nodes whose split_new_impl is still to run its selection are
\* those of the stack; every other node without plane_index (a leaf) holds
\* only brushes with used_plane true, every node with a plane_index holds
\* no brush, and every node of the stack holds a brush with used_plane
\* false.  When build_bsp returns the stack is empty.
C20_SplitExactlyWhileAPlaneIsUnused ==
    \A n \in 1..Len(bsp.nodes) :
        /\ bsp.nodes[n].plane_index # -1 => bsp.nodes[n].brush_list = <<>>
        /\ (bsp.ok /\ bsp.nodes[n].plane_index = -1
               /\ \A q \in 1..Len(bsp.stack) : bsp.stack[q] # n)
              => \A k \in 1..Len(bsp.nodes[n].brush_list) :
                    bsp.nodes[n].brush_list[k].used_plane
        /\ (\E q \in 1..Len(bsp.stack) : bsp.stack[q] = n)
              => /\ bsp.nodes[n].plane_index = -1
                 /\ \E k \in 1..Len(bsp.nodes[n].brush_list) :
                       ~bsp.nodes[n].brush_list[k].used_plane

\* build_bsp has returned a tree with inner nodes and with a leaf that
\* holds several brushes.
C20_Witness ==
    /\ pc = "bsp"
    /\ bsp.ok
    /\ bsp.stack = <<>>
    /\ \E n \in 1..Len(bsp.nodes) : bsp.nodes[n].plane_index # -1
    /\ \E n \in 1..Len(bsp.nodes) :
          /\ bsp.nodes[n].plane_index = -1
          /\ Len(bsp.nodes[n].brush_list) > 1

\* The hull poly lists are the stubs of one element each.
PolyListStubs(it) ==
    /\ it.poly_list_plane_indices = <<0>>
    /\ it.poly_list_point_indices = <<0>>
    /\ it.poly_list_string_characters = <<0>>

\* The least a dense encoding holds: the points of a hull (three or more)
\* are in poly_list_point_indices and its planes in
\* poly_list_plane_indices.
PolyListDense(it) ==
    Len(it.convex_hulls) > 0 =>
        /\ Len(it.poly_list_point_indices) >= 3
        /\ Len(it.poly_list_plane_indices) >= Len(it.convex_hulls)

\* C13: the mb_only handed to build selects the encoding of the interior
\* build returns: the stubs of one element each when it is true, the dense
\* poly lists of the hulls when it is false.
C13_MbOnlySelectsTheEncoding ==
    pc = "done" =>
        IF MB_ONLY THEN PolyListStubs(builder.interior)
        ELSE PolyListDense(builder.interior)

\* ------------------------------------------------- termination of build_bsp
\* Below node n no inner node splits on a plane of seen or on the plane of
\* one of its own ancestors.
RECURSIVE PathsUseEachPlaneOnce(_, _, _)
PathsUseEachPlaneOnce(tree, n, seen) ==
    IF n = 0 THEN TRUE
    ELSE IF tree.nodes[n].plane_index = -1 THEN TRUE
    ELSE /\ tree.nodes[n].plane_index \notin seen
         /\ PathsUseEachPlaneOnce(tree, tree.nodes[n].front,
                                  seen \cup {tree.nodes[n].plane_index})
         /\ PathsUseEachPlaneOnce(tree, tree.nodes[n].back,
                                  seen \cup {tree.nodes[n].plane_index})

\* The brushes of every node that is not an inner node have used the planes
\* split on above the node.
RECURSIVE SplitPlanesAreUsedBelow(_, _, _)
SplitPlanesAreUsedBelow(tree, n, seen) ==
    IF n = 0 THEN TRUE
    ELSE IF tree.nodes[n].plane_index = -1
    THEN \A k \in 1..Len(tree.nodes[n].brush_list) :
            tree.nodes[n].brush_list[k].plane_id \in seen
                => tree.nodes[n].brush_list[k].used_plane
    ELSE /\ SplitPlanesAreUsedBelow(tree, tree.nodes[n].front,
                                    seen \cup {tree.nodes[n].plane_index})
         /\ SplitPlanesAreUsedBelow(tree, tree.nodes[n].back,
                                    seen \cup {tree.nodes[n].plane_index})

\* 2 to the power n.
RECURSIVE Pow2(_)
Pow2(n) == IF n = 0 THEN 1 ELSE 2 * Pow2(n - 1)

\* A bound on the calls of split_new_impl that can still select a splitter
\* in the nodes 1 .. n: a node that is not split and offers u plane ids to
\* the selection can grow into at most 2^u - 1 inner nodes.
RECURSIVE SplitsLeft(_, _)
SplitsLeft(tree, n) ==
    IF n = 0 THEN 0
    ELSE SplitsLeft(tree, n - 1)
         + (IF tree.nodes[n].plane_index = -1
            THEN Pow2(Cardinality(UnusedPlanes(tree.nodes[n].brush_list))) - 1
            ELSE 0)

\* C21: build_bsp terminates.  At every moment no path from the root splits
\* twice on one plane id, every brush below a split on its plane has
\* used_plane set, and the inner nodes on a path number at most the plane
\* ids (the height counts the leaf too); and every split lowers the bound
\* on the splits that can follow, which is never negative.
C21_BuildBspTerminates ==
    /\ [](Len(bsp.nodes) > 0 =>
             /\ PathsUseEachPlaneOnce(bsp, 1, {})
             /\ SplitPlanesAreUsedBelow(bsp, 1, {})
             /\ height(bsp, 1) <= Len(bsp.plane_list) + 1)
    /\ [][(pc = "bsp" /\ bsp' # bsp /\ bsp'.ok)
             => SplitsLeft(bsp', Len(bsp'.nodes)) < SplitsLeft(bsp, Len(bsp.nodes))]_vars

\* build_bsp has returned a tree with a path that splits on every one of
\* four or more planes.
C21_Witness ==
    /\ pc = "done"
    /\ Len(bsp.plane_list) >= 4
    /\ height(bsp, 1) = Len(bsp.plane_list) + 1

\* C30: the events "Building BSP" carry current = 1, 2, 3, ... and total =
\* the number of planes of build_bsp, and when build_bsp has returned on
\* at least one triangle an event with current = total has been emitted.
C30_ProgressReachesTotal ==
    /\ \A i \in 1..Len(bsp.progress) :
          /\ bsp.progress[i].current = i
          /\ bsp.progress[i].total = Len(bsp.plane_list)
    /\ (pc \in {"bsp", "done"} /\ bsp.ok /\ bsp.stack = <<>> /\ Len(bsp.plane_list) > 0)
          => \E i \in 1..Len(bsp.progress) :
                bsp.progress[i].current = bsp.progress[i].total

\* ------------------------------------------------ the tables of the BSP tree
\* The BSPIndex ref names a solid leaf whose range of solid_leaf_surfaces
\* holds each surface of the brushes once and nothing else.
SolidLeafHolds(b, brush_list, ref) ==
    /\ ref.leaf
    /\ ref.solid
    /\ ref.index < Len(b.interior.bsp_solid_leaves)
    /\ b.interior.bsp_solid_leaves[ref.index + 1].surface_index
          + b.interior.bsp_solid_leaves[ref.index + 1].surface_count
       <= Len(b.interior.solid_leaf_surfaces)
    /\ LeafSurfaces(b.interior, ref.index)
       = {BrushSurfaces(b, brush_list)[k] : k \in 1..Len(brush_list)}
    /\ b.interior.bsp_solid_leaves[ref.index + 1].surface_count
       = Cardinality({BrushSurfaces(b, brush_list)[k] : k \in 1..Len(brush_list)})

\* The BSPIndex ref is what export_bsp_node is to return for node n of the
\* tree (0 is None): the empty leaf for None and for a leaf without
\* brushes, a solid leaf with the surfaces of its brushes for a leaf with
\* brushes, and for an inner node an entry of bsp_nodes whose two children
\* are those of the node, exchanged when the plane exported is flipped.
RECURSIVE ExportMatches(_, _, _, _)
ExportMatches(b, tree, n, ref) ==
    IF n = 0 THEN ref = EmptyLeaf
    ELSE IF tree.nodes[n].plane_index = -1
    THEN (IF Len(tree.nodes[n].brush_list) > 0
          THEN SolidLeafHolds(b, tree.nodes[n].brush_list, ref)
          ELSE ref = EmptyLeaf)
    ELSE /\ ~ref.leaf
         /\ ~ref.solid
         /\ ref.index < Len(b.interior.bsp_nodes)
         /\ \/ /\ ExportMatches(b, tree, tree.nodes[n].front,
                                b.interior.bsp_nodes[ref.index + 1].front_index)
               /\ ExportMatches(b, tree, tree.nodes[n].back,
                                b.interior.bsp_nodes[ref.index + 1].back_index)
            \/ /\ ExportMatches(b, tree, tree.nodes[n].front,
                                b.interior.bsp_nodes[ref.index + 1].back_index)
               /\ ExportMatches(b, tree, tree.nodes[n].back,
                                b.interior.bsp_nodes[ref.index + 1].front_index)

\* The nodes of the tree that are leaves with brushes.
SolidNodes(tree) ==
    {n \in 1..Len(tree.nodes) :
        tree.nodes[n].plane_index = -1 /\ Len(tree.nodes[n].brush_list) > 0}

\* The child references of bsp_nodes, as <<holder, side, BSPIndex>>.
ChildRefs(it) ==
    {<<i, "front", it.bsp_nodes[i + 1].front_index>> : i \in 0..(Len(it.bsp_nodes) - 1)}
    \cup {<<i, "back", it.bsp_nodes[i + 1].back_index>> : i \in 0..(Len(it.bsp_nodes) - 1)}

\* The ranges of the solid leaves follow one another in solid_leaf_surfaces
\* and fill it.
RangesFollow(it) ==
    /\ \A k \in 1..Len(it.bsp_solid_leaves) :
          it.bsp_solid_leaves[k].surface_index
          = (IF k = 1 THEN 0
             ELSE it.bsp_solid_leaves[k - 1].surface_index
                  + it.bsp_solid_leaves[k - 1].surface_count)
    /\ Len(it.solid_leaf_surfaces)
       = (IF Len(it.bsp_solid_leaves) = 0 THEN 0
          ELSE it.bsp_solid_leaves[Len(it.bsp_solid_leaves)].surface_index
               + it.bsp_solid_leaves[Len(it.bsp_solid_leaves)].surface_count)

\* C22: after the export of the tree every leaf with brushes has its own
\* BSPSolidLeaf, referenced as {leaf, solid, index} where the tree has the
\* leaf, whose range of solid_leaf_surfaces holds each distinct surface of
\* the brushes exactly once; there are as many solid leaves as leaves with
\* brushes, each referenced once, and their ranges fill solid_leaf_surfaces;
\* the leaf without brushes (the root of the empty build) adds nothing.
C22_LeavesAreExportedOnce ==
    pc = "done" =>
        /\ Len(builder.interior.bsp_solid_leaves) = Cardinality(SolidNodes(bsp))
        /\ RangesFollow(builder.interior)
        /\ IF bsp.nodes[1].plane_index = -1
           THEN /\ bsp.nodes[1].brush_list = <<>>
                /\ builder.interior.bsp_nodes = <<>>
                /\ builder.interior.bsp_solid_leaves = <<>>
                /\ builder.interior.solid_leaf_surfaces = <<>>
           ELSE /\ ExportMatches(builder, bsp, 1,
                                 [leaf |-> FALSE, solid |-> FALSE, index |-> 0])
                /\ \A leaf \in 0..(Len(builder.interior.bsp_solid_leaves) - 1) :
                      Cardinality({r \in ChildRefs(builder.interior) :
                                      r[3].leaf /\ r[3].solid /\ r[3].index = leaf}) = 1

\* A build has ended with three or more solid leaves, one of them with
\* several surfaces.
C22_Witness ==
    /\ pc = "done"
    /\ Len(builder.interior.bsp_solid_leaves) >= 3
    /\ \E k \in 1..Len(builder.interior.bsp_solid_leaves) :
          builder.interior.bsp_solid_leaves[k].surface_count > 1

\* C23: after a build with at least one triangle bsp_nodes is a tree rooted
\* at index 0: every child reference that is not a leaf names a node after
\* its holder and inside bsp_nodes, no node is referenced twice, and every
\* solid reference names an entry of bsp_solid_leaves.
C23_BspNodesAreATree ==
    (pc = "done" /\ Len(builder.brushes) > 0) =>
        /\ Len(builder.interior.bsp_nodes) > 0
        /\ \A r \in ChildRefs(builder.interior) :
              /\ ~r[3].leaf => /\ r[3].index > r[1]
                               /\ r[3].index < Len(builder.interior.bsp_nodes)
              /\ r[3].solid => r[3].index < Len(builder.interior.bsp_solid_leaves)
        /\ \A i \in 1..(Len(builder.interior.bsp_nodes) - 1) :
              Cardinality({r \in ChildRefs(builder.interior) :
                              ~r[3].leaf /\ r[3].index = i}) = 1

\* A build has ended with a node of bsp_nodes whose two children are nodes.
C23_Witness ==
    /\ pc = "done"
    /\ \E i \in 1..Len(builder.interior.bsp_nodes) :
          /\ ~builder.interior.bsp_nodes[i].front_index.leaf
          /\ ~builder.interior.bsp_nodes[i].back_index.leaf

\* ------------------------------------------------------ the groups of polys
\* The positions <<g, q>> of the poly k in the lists of groups.
PlacesOf(groups, k) ==
    {gq \in UNION {{<<g, q>> : q \in 1..Len(groups[g])} : g \in 1..Len(groups)} :
        groups[gq[1]][gq[2]] = k}

\* Every list of grouped is made of polys of one list of ret that no
\* earlier list of ret holds.
FirstAppearances(grouped, ret) ==
    \A g \in 1..Len(grouped) :
        \E e \in 1..Len(ret) :
            \A q \in 1..Len(grouped[g]) :
                /\ PlacesOf(<<ret[e]>>, grouped[g][q]) # {}
                /\ PlacesOf(SubSeq(ret, 1, e - 1), grouped[g][q]) = {}

\* surface_count summed over the first n convex hulls.
RECURSIVE SurfaceCounts(_, _)
SurfaceCounts(hulls, n) ==
    IF n = 0 THEN 0 ELSE SurfaceCounts(hulls, n - 1) + hulls[n].surface_count

\* export_brushes has made the hulls of the groups and build_bsp has not
\* split yet.
HullsExported == pc = "bsp" /\ bsp.used_planes = {}

RECURSIVE Triangles(_, _)
Triangles(b, mesh) ==
    IF mesh = <<>> THEN b.brushes
    ELSE Triangles(add_triangle(b, Head(mesh).verts[1], Head(mesh).verts[2],
                                Head(mesh).verts[3], <<FInt(0), FInt(0)>>,
                                <<FInt(0), FInt(0)>>, <<FInt(0), FInt(0)>>,
                                Head(mesh).norm, Head(mesh).material),
                   Tail(mesh))

\* The meshes whose root node is rated: the three crossing triangles, two
\* faces of the cube (two triangles each) that meet in an edge, and the
\* floor and the ceiling of the cube.
RatedMeshes ==
    {Crossing, SubSeq(Cube, 1, 2) \o SubSeq(Cube, 5, 6), SubSeq(Cube, 1, 4)}

\* The evaluation of plane_id on the root node of the tree, as the workers
\* start.
RatingOn(tree, plane_id) ==
    [plane_id |-> plane_id,
     brush_list |-> tree.nodes[1].brush_list,
     plane_list |-> tree.plane_list,
     considered_planes |-> {},
     at |-> [k \in 1..Len(tree.nodes[1].brush_list) |-> "test"],
     out |-> [k \in 1..Len(tree.nodes[1].brush_list) |-> <<>>],
     value |-> <<>>]

\* The test `!considered_planes.lock().unwrap().borrow().contains(&plane_id)`
\* of the call on brush k, and `self.plane_id == plane_id`: the call goes on
\* to insert, or computes its tuple from the sides of the vertices.
ConsideredTest ==
    /\ \E k \in 1..Len(rating.at) :
          /\ rating.at[k] = "test"
          /\ rating' =
                IF /\ rating.plane_id \notin rating.considered_planes
                   /\ rating.brush_list[k].plane_id = rating.plane_id
                THEN [rating EXCEPT !.at[k] = "insert"]
                ELSE [rating EXCEPT
                        !.at[k] = "done",
                        !.out[k] = calculate_split_rating(rating.brush_list[k],
                                                          rating.plane_id,
                                                          rating.plane_list, FALSE)]
    /\ UNCHANGED <<exportVars, clipVars, buildVars, ioVars, hullVars, progressVars>>

\* `considered_planes.lock().unwrap().borrow_mut().insert(plane_id)` of the
\* call on brush k and its return.
ConsideredInsert ==
    /\ \E k \in 1..Len(rating.at) :
          /\ rating.at[k] = "insert"
          /\ rating' = [rating EXCEPT
                          !.considered_planes = @ \cup {rating.plane_id},
                          !.at[k] = "done",
                          !.out[k] = calculate_split_rating(rating.brush_list[k],
                                                            rating.plane_id,
                                                            rating.plane_list, TRUE)]
    /\ UNCHANGED <<exportVars, clipVars, buildVars, ioVars, hullVars, progressVars>>

\* The reduce of the tuples and the rating calc_plane_rating returns.
RatingReduce ==
    /\ rating.value = <<>>
    /\ Len(rating.at) > 0
    /\ \A k \in 1..Len(rating.at) : rating.at[k] = "done"
    /\ rating' = [rating EXCEPT
                    !.value = <<RatingOf(SumOf(rating.out, 1), SumOf(rating.out, 2),
                                         SumOf(rating.out, 3))>>]
    /\ UNCHANGED <<exportVars, clipVars, buildVars, ioVars, hullVars, progressVars>>

InitRating ==
    /\ builder = DIFBuilder_new(TRUE)
    /\ twin = DIFBuilder_new(TRUE)
    /\ calls = <<>>
    /\ brush = <<>>
    /\ clips = <<>>
    /\ NoBuild
    /\ NoIO
    /\ NoHull
    /\ NoProgress
    /\ \E mesh \in RatedMeshes :
          \E tree \in {build_bsp(Triangles(DIFBuilder_new(TRUE), mesh))} :
              \E plane_id \in UnusedPlanes(tree.nodes[1].brush_list) :
                  rating = RatingOn(tree, plane_id)

NextRating == ConsideredTest \/ ConsideredInsert \/ RatingReduce

SpecRating == InitRating /\ [][NextRating]_vars

\* The calls that have returned the tuple of the coplanar case.
CoplanarReturns ==
    {k \in 1..Len(rating.at) : rating.at[k] = "done" /\ rating.out[k][4] = 1}

\* C17: within one calc_plane_rating evaluation, under every interleaving
\* of the workers, at most one brush returns the coplanar tuple: the test
\* of the visited set and the insert into it act as one atomic step.
C17_CoplanarCountedOnce == Cardinality(CoplanarReturns) <= 1

\* C18, as claimed: a brush of the candidate plane that takes the coplanar
\* branch contributes (1,0,0,1,0) when it is not inverted and (0,1,0,1,0)
\* when it is.
C18_OwnPlaneCountsAsFront ==
    \A k \in CoplanarReturns :
        rating.out[k] = IF rating.brush_list[k].inverted_plane
                        THEN <<0, 1, 0, 1, 0>> ELSE <<1, 0, 0, 1, 0>>

\* C18, as the code has it: the coplanar tuple is returned only for a brush
\* of the candidate plane, by a call that found the plane not yet in the
\* visited set, and it is (0,1,0,1,0) for a brush that is not inverted and
\* (1,0,0,1,0) for an inverted one; every other call returns a tuple with
\* coplanar 0, and when all calls have returned one of them has returned
\* the coplanar tuple.
C18_OwnPlaneCountsAsBack ==
    /\ \A k \in CoplanarReturns :
          /\ rating.brush_list[k].plane_id = rating.plane_id
          /\ rating.out[k] = IF rating.brush_list[k].inverted_plane
                             THEN <<1, 0, 0, 1, 0>> ELSE <<0, 1, 0, 1, 0>>
    /\ \A k \in 1..Len(rating.at) :
          (rating.at[k] = "done" /\ rating.brush_list[k].plane_id # rating.plane_id)
              => rating.out[k][4] = 0
    /\ rating.value # <<>> => CoplanarReturns # {}

\* The rating of a plane has been reduced after a brush of the plane
\* returned the coplanar tuple and another brush of the plane, which found
\* the plane in the set, returned the tuple of its vertices.
C18_Witness ==
    /\ rating.value # <<>>
    /\ Cardinality(CoplanarReturns) = 1
    /\ \E k \in 1..Len(rating.at) :
          /\ rating.brush_list[k].plane_id = rating.plane_id
          /\ k \notin CoplanarReturns

\* --------------------------------------------- libdif readers and writers
\* A u32 is the integer of its 32 bits in two's complement (0x80000000 and
\* above are negative); a stream is the sequence of its bytes, and a Buf is
\* the part of the stream not yet consumed.

\* 0x80000000u32.
NULL_BIT == -2147483647 - 1

\* BufMut::put_u8, put_u16_le and put_u32_le.
put_u8(v) == <<v % 256>>
put_u16_le(v) == <<v % 256, (v \div 256) % 256>>
put_u32_le(v) ==
    <<v % 256, (v \div 256) % 256, (v \div 65536) % 256, (v \div 16777216) % 256>>

\* Buf::get_u16_le and get_u32_le of the first bytes of from.
get_u16_le(from) == from[1] + 256 * from[2]
get_u32_le(from) ==
    from[1] + 256 * from[2] + 65536 * from[3]
        + 16777216 * (IF from[4] >= 128 THEN from[4] - 256 ELSE from[4])

\* DifResult: Err(DifError) and Ok(value), with the Buf left behind.
Err(error) == [state |-> "err", error |-> error]
Ok(value, rest) == [state |-> "ok", value |-> value, rest |-> rest]

\* Buf advanced by n bytes.
Advance(from, n) == SubSeq(from, n + 1, Len(from))

\* primitive_readable!(u8, get_u8), (u16, get_u16_le), (u32, get_u32_le).
u8_read(from) ==
    IF Len(from) < 1 THEN Err("EOF") ELSE Ok(from[1], Advance(from, 1))
u16_read(from) ==
    IF Len(from) < 2 THEN Err("EOF") ELSE Ok(get_u16_le(from), Advance(from, 2))
u32_read(from) ==
    IF Len(from) < 4 THEN Err("EOF") ELSE Ok(get_u32_le(from), Advance(from, 4))

\* From<u32> for PossiblyNullSurfaceIndex with the index masked to 15 bits.
PossiblyNullSurfaceIndex_from_15_bits(index) ==
    IF index < 0
    THEN [tag |-> "Null", inner |-> index % 32768]
    ELSE [tag |-> "NonNull", inner |-> index % 32768]

\* From<u32> for PossiblyNullSurfaceIndex: index & 0x80000000 == 0x80000000
\* is the sign of the two's complement, index & 0xFFFF the remainder.
PossiblyNullSurfaceIndex_from(index) ==
    IF index < 0
    THEN [tag |-> "Null", inner |-> index % 65536]
    ELSE [tag |-> "NonNull", inner |-> index % 65536]

\* Readable and Writable for PossiblyNullSurfaceIndex.
PossiblyNullSurfaceIndex_read(from) ==
    IF u32_read(from).state = "err" THEN u32_read(from)
    ELSE Ok(PossiblyNullSurfaceIndex_from(u32_read(from).value), u32_read(from).rest)

PossiblyNullSurfaceIndex_write(self) ==
    put_u32_le(IF self.tag = "Null" THEN self.inner + NULL_BIT ELSE self.inner)

\* x & bit != 0, x | bit and x & !bit for a single bit of a u32 below 2^31.
TestBit(x, bit) == (x \div bit) % 2 = 1
SetBit(x, bit) == IF TestBit(x, bit) THEN x ELSE x + bit
ClearBit(x, bit) == IF TestBit(x, bit) THEN x - bit ELSE x

\* The index of read_bspnode once the bit of leaf and then the bit of solid
\* are taken off.
BspIndexOf(index, leaf_bit, solid_bit) ==
    [index |-> ClearBit(ClearBit(index, leaf_bit), solid_bit),
     leaf |-> TestBit(index, leaf_bit),
     solid |-> TestBit(ClearBit(index, leaf_bit), solid_bit)]

\* BSPIndex::read_bspnode at the interior version given.
read_bspnode(from, interior) ==
    IF interior >= 14
    THEN (IF u32_read(from).state = "err" THEN u32_read(from)
          ELSE Ok(BspIndexOf(u32_read(from).value, 524288, 262144), u32_read(from).rest))
    ELSE (IF u16_read(from).state = "err" THEN u16_read(from)
          ELSE Ok(BspIndexOf(u16_read(from).value, 32768, 16384), u16_read(from).rest))

\* The index write_bspnode writes: the bits of leaf and solid are set.
BspIndexBits(self, leaf_bit, solid_bit) ==
    IF self.solid
    THEN SetBit(IF self.leaf THEN SetBit(self.index, leaf_bit) ELSE self.index, solid_bit)
    ELSE IF self.leaf THEN SetBit(self.index, leaf_bit)
    ELSE self.index

\* BSPIndex::write_bspnode at the interior version given; below version 14
\* the index is cast to u16.
write_bspnode(self, interior) ==
    IF interior >= 14 THEN put_u32_le(BspIndexBits(self, 524288, 262144))
    ELSE put_u16_le(BspIndexBits(self, 32768, 16384) % 65536)

\* The second byte a three-byte or four-byte sequence may have after lead.
SecondOf(lead) ==
    IF lead = 224 THEN 160..191
    ELSE IF lead = 237 THEN 128..159
    ELSE IF lead = 240 THEN 144..191
    ELSE IF lead = 244 THEN 128..143
    ELSE 128..191

\* String::from_utf8 accepts bytes.
RECURSIVE from_utf8(_)
from_utf8(bytes) ==
    IF bytes = <<>> THEN TRUE
    ELSE IF bytes[1] < 128 THEN from_utf8(Advance(bytes, 1))
    ELSE IF bytes[1] \in 194..223
    THEN /\ Len(bytes) >= 2
         /\ bytes[2] \in 128..191
         /\ from_utf8(Advance(bytes, 2))
    ELSE IF bytes[1] \in 224..239
    THEN /\ Len(bytes) >= 3
         /\ bytes[2] \in SecondOf(bytes[1])
         /\ bytes[3] \in 128..191
         /\ from_utf8(Advance(bytes, 3))
    ELSE IF bytes[1] \in 240..244
    THEN /\ Len(bytes) >= 4
         /\ bytes[2] \in SecondOf(bytes[1])
         /\ bytes[3] \in 128..191
         /\ bytes[4] \in 128..191
         /\ from_utf8(Advance(bytes, 4))
    ELSE FALSE

\* Buf::take(length).collect::<Vec<_>>(): Take::remaining is the smaller of
\* the limit and what the Buf holds, and collect copies that many bytes.
take_collect(from, length) ==
    SubSeq(from, 1, IF Len(from) < length THEN Len(from) ELSE length)

\* Readable for String: the u8 length, the bytes taken, from_utf8.
String_read(from) ==
    IF u8_read(from).state = "err" THEN u8_read(from)
    ELSE IF ~from_utf8(take_collect(u8_read(from).rest, u8_read(from).value))
    THEN Err("Utf8Error")
    ELSE Ok(take_collect(u8_read(from).rest, u8_read(from).value),
            Advance(u8_read(from).rest,
                    Len(take_collect(u8_read(from).rest, u8_read(from).value))))

\* Writable for String: self.len() as u8, then the bytes.
String_write(self) == put_u8(Len(self)) \o self

\* The footer PNG::read waits for (the IEND chunk type and its CRC).
footer == <<73, 69, 78, 68, 174, 66, 96, 130>>

ends_with(data, needle) ==
    /\ Len(data) >= Len(needle)
    /\ SubSeq(data, Len(data) - Len(needle) + 1, Len(data)) = needle

\* Readable for PNG: bytes are pushed to data until it ends with the footer.
RECURSIVE PNG_read(_, _)
PNG_read(from, data) ==
    IF ~(Len(data) < 8 \/ ~ends_with(data, footer)) THEN Ok([data |-> data], from)
    ELSE IF u8_read(from).state = "err" THEN u8_read(from)
    ELSE PNG_read(u8_read(from).rest, Append(data, u8_read(from).value))

\* Writable for PNG.
PNG_write(self) == self.data

\* The loop of read_vec for T = u16: length items are read and pushed.
RECURSIVE ReadItems(_, _, _)
ReadItems(from, length, result) ==
    IF length = 0 THEN Ok(result, from)
    ELSE IF u16_read(from).state = "err" THEN u16_read(from)
    ELSE ReadItems(u16_read(from).rest, length - 1,
                   Append(result, u16_read(from).value))

\* read_vec::<u16, u16> of Readable for Vec<T>: the u32 length, whose bit
\* 0x80000000 announces a u8 parameter, and the items.
Vec_read(from) ==
    IF u32_read(from).state = "err" THEN u32_read(from)
    ELSE IF u32_read(from).value < 0
    THEN (IF u8_read(u32_read(from).rest).state = "err"
          THEN u8_read(u32_read(from).rest)
          ELSE ReadItems(u8_read(u32_read(from).rest).rest,
                         u32_read(from).value - NULL_BIT, <<>>))
    ELSE ReadItems(u32_read(from).rest, u32_read(from).value, <<>>)

RECURSIVE WriteItems(_)
WriteItems(vec) ==
    IF vec = <<>> THEN <<>> ELSE put_u16_le(Head(vec)) \o WriteItems(Tail(vec))

\* write_vec::<u16, u16> of Writable for Vec<T>.
Vec_write(vec) == put_u32_le(Len(vec)) \o WriteItems(vec)

\* ------------------------------------------------ the surface list
\* Version::is_tge.
is_tge(engine) == engine \in {"MBG", "TGE"}

\* The fields of a Surface on the wire as their widths in bytes, in the
\* order Surface::read takes them: winding_start, winding_count,
\* plane_index, texture_index, tex_gen_index, surface_flags, fan_mask,
\* the three fields of SurfaceLightMap, light_count, light_state_info_start,
\* map_offset_x, map_offset_y, map_size_x, map_size_y, and outside the TGE
\* engines an unused byte and, for interiors 2 to 5, brush_id.
SurfaceLayout(interior, engine) ==
    <<4, IF interior >= 13 THEN 4 ELSE 1, 2, 2, 4, 1, 4, 2, 4, 4, 2, 4,
      IF interior >= 13 THEN 4 ELSE 1, IF interior >= 13 THEN 4 ELSE 1,
      IF interior >= 13 THEN 4 ELSE 1, IF interior >= 13 THEN 4 ELSE 1>>
    \o (IF is_tge(engine) THEN <<>>
        ELSE IF interior >= 2 /\ interior <= 5 THEN <<1, 4>>
        ELSE <<1>>)

\* The little-endian value of the first width bytes.
get_le(from, width) ==
    IF width = 1 THEN from[1]
    ELSE IF width = 2 THEN get_u16_le(from)
    ELSE get_u32_le(from)

\* The reads of Surface::read one after the other, up to the first that
\* finds too few bytes.
RECURSIVE ReadFields(_, _, _)
ReadFields(from, widths, values) ==
    IF widths = <<>> \/ Len(from) < Head(widths)
    THEN [values |-> values, rest |-> from]
    ELSE ReadFields(Advance(from, Head(widths)), Tail(widths),
                    Append(values, get_le(from, Head(widths))))

\* The Surface made of the fields read; the two distances of the light map
\* are kept as their four bytes.
SurfaceOf(v) ==
    [winding_start |-> v[1], winding_count |-> v[2],
     plane_index |-> v[3] % 32768, plane_flipped |-> v[3] >= 32768,
     texture_index |-> v[4], tex_gen_index |-> v[5], surface_flags |-> v[6],
     fan_mask |-> v[7],
     light_map |-> [final_word |-> v[8], tex_gen_x_distance |-> v[9],
                    tex_gen_y_distance |-> v[10]],
     light_count |-> v[11], light_state_info_start |-> v[12],
     map_offset_x |-> v[13], map_offset_y |-> v[14],
     map_size_x |-> v[15], map_size_y |-> v[16],
     brush_id |-> IF Len(v) = 18 THEN v[18] ELSE 0]

\* The checks of Surface::read in the order of the code, each after the
\* read of its field; fields is what ReadFields could read of the
\* layout.  (winding_start + winding_count) as usize > indices_len is
\* written without the sum; a u32 with bit 31 set is above every length.
SurfaceChecked(fields, layout, lens) ==
    IF Len(fields.values) < 2 THEN Err("EOF")
    ELSE IF \/ fields.values[1] < 0 \/ fields.values[2] < 0
            \/ fields.values[1] > lens.indices
            \/ fields.values[2] > lens.indices - fields.values[1]
    THEN Err("OOB")
    ELSE IF Len(fields.values) < 3 THEN Err("EOF")
    ELSE IF fields.values[3] % 32768 >= lens.planes THEN Err("OOB")
    ELSE IF Len(fields.values) < 4 THEN Err("EOF")
    ELSE IF fields.values[4] >= lens.material_names THEN Err("OOB")
    ELSE IF Len(fields.values) < 5 THEN Err("EOF")
    ELSE IF fields.values[5] < 0 \/ fields.values[5] >= lens.tex_gen_eqs
    THEN Err("OOB")
    ELSE IF Len(fields.values) < 6 THEN Err("EOF")
    ELSE IF fields.values[6] >= 32 THEN Err("Invalid flags")
    ELSE IF Len(fields.values) < Len(layout) THEN Err("EOF")
    ELSE Ok(SurfaceOf(fields.values), fields.rest)

\* Surface::read at the interior version and engine of version.
Surface_read(from, interior, engine, lens) ==
    Only({SurfaceChecked(fields, SurfaceLayout(interior, engine), lens) :
             fields \in {ReadFields(from, SurfaceLayout(interior, engine), <<>>)}})

\* Writable for Surface.
Surface_write(self, interior, engine) ==
    put_u32_le(self.winding_start)
    \o (IF interior >= 13 THEN put_u32_le(self.winding_count)
        ELSE put_u8(self.winding_count))
    \o put_u16_le(IF self.plane_flipped THEN SetBit(self.plane_index, 32768)
                  ELSE self.plane_index)
    \o put_u16_le(self.texture_index)
    \o put_u32_le(self.tex_gen_index)
    \o put_u8(self.surface_flags)
    \o put_u32_le(self.fan_mask)
    \o put_u16_le(self.light_map.final_word)
    \o put_u32_le(self.light_map.tex_gen_x_distance)
    \o put_u32_le(self.light_map.tex_gen_y_distance)
    \o put_u16_le(self.light_count)
    \o put_u32_le(self.light_state_info_start)
    \o (IF interior >= 13
        THEN put_u32_le(self.map_offset_x) \o put_u32_le(self.map_offset_y)
                 \o put_u32_le(self.map_size_x) \o put_u32_le(self.map_size_y)
        ELSE put_u8(self.map_offset_x) \o put_u8(self.map_offset_y)
                 \o put_u8(self.map_size_x) \o put_u8(self.map_size_y))
    \o (IF is_tge(engine) THEN <<>>
        ELSE IF interior >= 2 /\ interior <= 5
        THEN put_u8(0) \o put_u32_le(self.brush_id)
        ELSE put_u8(0))

\* The loop of read_vec_fn with Surface::read as read_func.
RECURSIVE ReadSurfaces(_, _, _, _, _, _)
ReadSurfaces(from, length, result, interior, engine, lens) ==
    IF length = 0 THEN Ok(result, from)
    ELSE Only({IF item.state = "err" THEN item
               ELSE ReadSurfaces(item.rest, length - 1, Append(result, item.value),
                                 interior, engine, lens) :
                  item \in {Surface_read(from, interior, engine, lens)}})

\* read_vec_fn over Surface::read: the u32 length, whose bit 0x80000000
\* announces a u8 that is read and dropped, and the surfaces.
read_vec_fn(from, interior, engine, lens) ==
    IF u32_read(from).state = "err" THEN u32_read(from)
    ELSE IF u32_read(from).value < 0
    THEN (IF u8_read(u32_read(from).rest).state = "err"
          THEN u8_read(u32_read(from).rest)
          ELSE ReadSurfaces(u8_read(u32_read(from).rest).rest,
                            u32_read(from).value - NULL_BIT, <<>>,
                            interior, engine, lens))
    ELSE ReadSurfaces(u32_read(from).rest, u32_read(from).value, <<>>,
                      interior, engine, lens)

RECURSIVE WriteSurfaceItems(_, _, _)
WriteSurfaceItems(vec, interior, engine) ==
    IF vec = <<>> THEN <<>>
    ELSE Surface_write(Head(vec), interior, engine)
             \o WriteSurfaceItems(Tail(vec), interior, engine)

\* Writable for Vec<Surface>, as Interior::write calls it.
Surfaces_write(vec, interior, engine) ==
    put_u32_le(Len(vec)) \o WriteSurfaceItems(vec, interior, engine)

\* version.engine after the read of the surface list has succeeded.
engine_when_read(engine) == IF engine = "Unknown" THEN "TGEA" ELSE engine

\* version.engine after the first read has failed, with the engine left
\* Unknown.
engine_when_failed_unknown(engine) == engine

\* version.engine after the first read of the surface list has failed.
engine_when_failed(engine) == IF engine = "Unknown" THEN "MBG" ELSE engine

\* ------------------------------------------------ writing then reading
\* written is the object handed to its writer, wire the stream the reader
\* is given, got the state of the exchange: "none" before the write,
\* "unread" once the stream holds the object, "cut" when the stream has
\* lost its end, and the DifResult of the reader afterwards.

\* Every index a PossiblyNullSurfaceIndex can hold.
SurfaceIndices ==
    {[tag |-> t, inner |-> k] : t \in {"Null", "NonNull"}, k \in 0..65535}

\* Strings as their UTF-8 bytes: "", "a", "ab", "abc", "e-acute" and
\* "a e-acute".
Strings ==
    {<<>>, <<97>>, <<97, 98>>, <<97, 98, 99>>, <<195, 169>>, <<97, 195, 169>>}

\* PNG files: the signature and the footer, and the footer alone.
PNGs == {[data |-> <<137, 80, 78, 71>> \o footer], [data |-> footer]}

Vecs == {<<>>, <<1>>, <<258, 65535>>}

\* Positions in bsp_nodes and bsp_solid_leaves: small ones and those around
\* the powers of two from 2^14 to 2^20.
TableIndices ==
    {0, 1, 255, 256, 16383, 16384, 32767, 32768, 65535, 65536, 131071, 131072,
     262143, 262144, 524287, 524288, 1048575, 1048576}

\* What export_bsp_node returns: a node, a solid leaf, the empty leaf.
BSPIndices ==
    {[index |-> i, leaf |-> FALSE, solid |-> FALSE] : i \in TableIndices}
    \cup {[index |-> i, leaf |-> TRUE, solid |-> TRUE] : i \in TableIndices}
    \cup {[index |-> 0, leaf |-> TRUE, solid |-> FALSE]}

\* Surfaces of an interior with 7 indices, 3 planes, 2 materials and 2
\* texture generators.
SurfaceLens == [indices |-> 7, planes |-> 3, material_names |-> 2, tex_gen_eqs |-> 2]

FirstSurface ==
    [winding_start |-> 0, winding_count |-> 3, plane_index |-> 1,
     plane_flipped |-> FALSE, texture_index |-> 0, tex_gen_index |-> 0,
     surface_flags |-> 16, fan_mask |-> 7,
     light_map |-> [final_word |-> 0, tex_gen_x_distance |-> 0,
                    tex_gen_y_distance |-> 0],
     light_count |-> 0, light_state_info_start |-> 0,
     map_offset_x |-> 0, map_offset_y |-> 0, map_size_x |-> 0, map_size_y |-> 0,
     brush_id |-> 0]

SecondSurface ==
    [FirstSurface EXCEPT !.winding_start = 3, !.winding_count = 4,
                         !.plane_index = 2, !.plane_flipped = TRUE,
                         !.texture_index = 1, !.tex_gen_index = 1,
                         !.surface_flags = 0, !.fan_mask = 15]

\* A surface of a damaged file: its texture is not in material_names.
StraySurface == [FirstSurface EXCEPT !.texture_index = 9]

SurfaceLists ==
    {<<>>, <<FirstSurface>>, <<FirstSurface, SecondSurface>>,
     <<SecondSurface, FirstSurface>>, <<FirstSurface, StraySurface>>}

\* What follows the surface list in the interior.
SurfaceTails == {<<>>, <<0>>, <<2, 0, 0, 0>>}

\* The interior version and the engine a file was written for.
SurfaceFiles ==
    {[interior |-> 0, engine |-> "MBG"], [interior |-> 0, engine |-> "TGEA"],
     [interior |-> 4, engine |-> "TGEA"], [interior |-> 13, engine |-> "TGEA"]}

\* version.engine when the read of an interior begins: Unknown in the
\* first interior of a file, what the interiors before have set afterwards.
EngineVersions == {"Unknown", "MBG", "TGE", "TGEA", "T3D"}

\* version.interior of the file: MBG writes 0; 13 and 14 are the versions
\* on the two sides of the change of width.
InteriorVersions == {0, 13, 14}

Objects ==
    {[kind |-> "PossiblyNullSurfaceIndex", index |-> v] : v \in SurfaceIndices}
    \cup {[kind |-> "String", string |-> v] : v \in Strings}
    \cup {[kind |-> "PNG", png |-> v] : v \in PNGs}
    \cup {[kind |-> "Vec", vec |-> v] : v \in Vecs}
    \cup {[kind |-> "BSPIndex", bsp_index |-> v, interior |-> i] :
              v \in BSPIndices, i \in InteriorVersions}
    \cup {[kind |-> "Surfaces", surfaces |-> v, tail |-> t, file |-> f, engine |-> e] :
              v \in SurfaceLists, t \in SurfaceTails, f \in SurfaceFiles,
              e \in EngineVersions}

\* What the exchange keeps of the DifResult.
\* The surface list in Interior::read: the list is read from a second
\* cursor over the bytes of from; when that succeeds from is advanced by
\* what the cursor consumed, when it fails the list is read again from from
\* for interior 0 and refused for the others.
Interior_read_surfaces(from, interior, engine, lens) ==
    Only({IF first.state = "ok"
          THEN [result |-> Ok(first.value,
                              Advance(from, Len(from) - Len(first.rest))),
                engine |-> engine_when_read(engine)]
          ELSE IF interior # 0
          THEN [result |-> Err("Invalid version for MBG interior"),
                engine |-> engine_when_failed(engine)]
          ELSE [result |-> read_vec_fn(from, interior, engine_when_failed(engine), lens),
                engine |-> engine_when_failed(engine)] :
             first \in {read_vec_fn(from, interior, engine, lens)}})

Read(result) == [state |-> result.state, cut |-> got.state = "cut", result |-> result]

WriteIndex ==
    /\ got.state = "none"
    /\ written.kind = "PossiblyNullSurfaceIndex"
    /\ wire' = PossiblyNullSurfaceIndex_write(written.index)
    /\ got' = [state |-> "unread"]
    /\ UNCHANGED <<exportVars, clipVars, buildVars, ratingVars, hullVars, progressVars, written>>

WriteString ==
    /\ got.state = "none"
    /\ written.kind = "String"
    /\ wire' = String_write(written.string)
    /\ got' = [state |-> "unread"]
    /\ UNCHANGED <<exportVars, clipVars, buildVars, ratingVars, hullVars, progressVars, written>>

WritePNG ==
    /\ got.state = "none"
    /\ written.kind = "PNG"
    /\ wire' = PNG_write(written.png)
    /\ got' = [state |-> "unread"]
    /\ UNCHANGED <<exportVars, clipVars, buildVars, ratingVars, hullVars, progressVars, written>>

WriteVec ==
    /\ got.state = "none"
    /\ written.kind = "Vec"
    /\ wire' = Vec_write(written.vec)
    /\ got' = [state |-> "unread"]
    /\ UNCHANGED <<exportVars, clipVars, buildVars, ratingVars, hullVars, progressVars, written>>

WriteBSPIndex ==
    /\ got.state = "none"
    /\ written.kind = "BSPIndex"
    /\ wire' = write_bspnode(written.bsp_index, written.interior)
    /\ got' = [state |-> "unread"]
    /\ UNCHANGED <<exportVars, clipVars, buildVars, ratingVars, hullVars, progressVars, written>>

WriteSurfaces ==
    /\ got.state = "none"
    /\ written.kind = "Surfaces"
    /\ wire' = Surfaces_write(written.surfaces, written.file.interior, written.file.engine)
                   \o written.tail
    /\ got' = [state |-> "unread"]
    /\ UNCHANGED <<exportVars, clipVars, buildVars, ratingVars, hullVars, progressVars, written>>

\* The stream ends before the record is complete: the reader is given the
\* first n bytes only.
Truncate ==
    /\ got.state = "unread"
    /\ \E n \in 0..(Len(wire) - 1) : wire' = SubSeq(wire, 1, n)
    /\ got' = [state |-> "cut"]
    /\ UNCHANGED <<exportVars, clipVars, buildVars, ratingVars, hullVars, progressVars, written>>

ReadIndex ==
    /\ got.state \in {"unread", "cut"}
    /\ written.kind = "PossiblyNullSurfaceIndex"
    /\ got' = Read(PossiblyNullSurfaceIndex_read(wire))
    /\ UNCHANGED <<exportVars, clipVars, buildVars, ratingVars, hullVars, progressVars, written, wire>>

ReadString ==
    /\ got.state \in {"unread", "cut"}
    /\ written.kind = "String"
    /\ got' = Read(String_read(wire))
    /\ UNCHANGED <<exportVars, clipVars, buildVars, ratingVars, hullVars, progressVars, written, wire>>

ReadPNG ==
    /\ got.state \in {"unread", "cut"}
    /\ written.kind = "PNG"
    /\ got' = Read(PNG_read(wire, <<>>))
    /\ UNCHANGED <<exportVars, clipVars, buildVars, ratingVars, hullVars, progressVars, written, wire>>

ReadVec ==
    /\ got.state \in {"unread", "cut"}
    /\ written.kind = "Vec"
    /\ got' = Read(Vec_read(wire))
    /\ UNCHANGED <<exportVars, clipVars, buildVars, ratingVars, hullVars, progressVars, written, wire>>

ReadBSPIndex ==
    /\ got.state \in {"unread", "cut"}
    /\ written.kind = "BSPIndex"
    /\ got' = Read(read_bspnode(wire, written.interior))
    /\ UNCHANGED <<exportVars, clipVars, buildVars, ratingVars, hullVars, progressVars, written, wire>>

ReadSurfaceList ==
    /\ got.state \in {"unread", "cut"}
    /\ written.kind = "Surfaces"
    /\ \E read \in {Interior_read_surfaces(wire, written.file.interior,
                                             written.engine, SurfaceLens)} :
           got' = [state |-> read.result.state, cut |-> got.state = "cut",
                   result |-> read.result, engine |-> read.engine]
    /\ UNCHANGED <<exportVars, clipVars, buildVars, ratingVars, hullVars, progressVars, written, wire>>

InitIO ==
    /\ builder = DIFBuilder_new(TRUE)
    /\ twin = DIFBuilder_new(TRUE)
    /\ calls = <<>>
    /\ brush = <<>>
    /\ clips = <<>>
    /\ NoBuild
    /\ NoRating
    /\ NoHull
    /\ NoProgress
    /\ written \in Objects
    /\ wire = <<>>
    /\ got = [state |-> "none"]

NextIO ==
    \/ WriteIndex \/ WriteString \/ WritePNG \/ WriteVec \/ WriteBSPIndex
    \/ WriteSurfaces
    \/ Truncate
    \/ ReadIndex \/ ReadString \/ ReadPNG \/ ReadVec \/ ReadBSPIndex
    \/ ReadSurfaceList

SpecIO == InitIO /\ [][NextIO]_vars

\* The reader has returned on the whole stream.
ReadWhole(kind) ==
    /\ written.kind = kind
    /\ got.state \in {"ok", "err"}
    /\ ~got.cut

\* C11: Null(k) is written as the four little-endian bytes of k with bit
\* 0x80000000 set and the reader gives Null(k) back; NonNull(k) is written
\* without the bit and read back as NonNull(k), for every 16-bit k; the
\* reader consumes the four bytes.
C11_SurfaceIndexRoundTrips ==
    ReadWhole("PossiblyNullSurfaceIndex") =>
        /\ wire = <<written.index.inner % 256, written.index.inner \div 256, 0,
                    IF written.index.tag = "Null" THEN 128 ELSE 0>>
        /\ got.state = "ok"
        /\ got.result.value = written.index
        /\ got.result.rest = <<>>

\* Null(65535) has been written and read back.
C11_Witness ==
    /\ ReadWhole("PossiblyNullSurfaceIndex")
    /\ written.index = [tag |-> "Null", inner |-> 65535]
    /\ got.state = "ok"

\* C14: a reader given a stream that ends before the record is complete
\* returns an error, and no object.
C14_TruncatedStreamIsAnError ==
    (got.state \in {"ok", "err"} /\ got.cut) => got.state = "err"

\* C28: a BSPIndex written by write_bspnode and read by read_bspnode at the
\* same interior version comes back with the same index, leaf and solid.
C28_BSPIndexRoundTrips ==
    ReadWhole("BSPIndex") =>
        /\ got.state = "ok"
        /\ got.result.value = written.bsp_index

\* The first read of the surface list, at the engine version.engine holds
\* on entry, has failed.
FirstReadFails ==
    /\ written.kind = "Surfaces"
    /\ got.state \in {"ok", "err"}
    /\ read_vec_fn(wire, written.file.interior, written.engine, SurfaceLens).state = "err"

MaxWinding == 32

\* export_surface writes windings of three points; the arrays of
\* process_hull_poly_lists hold windings of up to 32.
WindingCounts == 3..MaxWinding

\* fan_mask as the set of its bits: export_surface sets every bit below
\* winding_count.
FullMask(winding_count) == 0..(winding_count - 1)

\* (winding_count - 1) & !1
LastEven(winding_count) == 2 * ((winding_count - 1) \div 2)

\* let mut temp_indices = [0; 32]; the array is indexed from 0, the
\* sequence from 1.
ZeroIndices == [k \in 1..MaxWinding |-> 0]

InitPolyList ==
    /\ builder = DIFBuilder_new(TRUE)
    /\ twin = DIFBuilder_new(TRUE)
    /\ calls = <<>>
    /\ brush = <<>>
    /\ clips = <<>>
    /\ NoBuild
    /\ NoRating
    /\ NoIO
    /\ exporting = [pc |-> "none"]
    /\ NoProgress
    /\ \E n \in WindingCounts :
          poly_list = [pc |-> "odd", winding_count |-> n, fan_mask |-> FullMask(n),
                       temp_indices |-> ZeroIndices, jdx |-> 1, j |-> 1,
                       point_indices |-> ZeroIndices, num_points |-> 0]

\* while j < s.winding_count { temp_indices[jdx] = j; jdx += 1; j += 2; }
\* and, when the loop ends, j = (s.winding_count - 1) & (!1).
OddLoop ==
    /\ poly_list.pc = "odd"
    /\ poly_list.j < poly_list.winding_count
    /\ poly_list' =
          [poly_list EXCEPT
              !.temp_indices[poly_list.jdx + 1] = poly_list.j,
              !.jdx = @ + 1,
              !.j = IF poly_list.j + 2 < poly_list.winding_count THEN poly_list.j + 2
                    ELSE LastEven(poly_list.winding_count),
              !.pc = IF poly_list.j + 2 < poly_list.winding_count THEN "odd" ELSE "even"]
    /\ UNCHANGED <<exportVars, clipVars, buildVars, ratingVars, ioVars, exporting, progressVars>>

\* while j > 0 { temp_indices[jdx] = j; j -= 2; } and, when the loop ends,
\* jdx = 0 and the j of the for loop.
EvenLoop ==
    /\ poly_list.pc = "even"
    /\ poly_list.j > 0
    /\ poly_list' =
          [poly_list EXCEPT
              !.temp_indices[poly_list.jdx + 1] = poly_list.j,
              !.j = IF poly_list.j - 2 > 0 THEN poly_list.j - 2 ELSE 0,
              !.jdx = IF poly_list.j - 2 > 0 THEN @ ELSE 0,
              !.pc = IF poly_list.j - 2 > 0 THEN "even" ELSE "copy"]
    /\ UNCHANGED <<exportVars, clipVars, buildVars, ratingVars, ioVars, exporting, progressVars>>

\* for j in 0..s.winding_count { if s.fan_mask & (1 << j) > 0 {
\* point_indices[jdx] = indices[winding_start + temp_indices[j]]; jdx += 1 } }
\* and, when the loop ends, temp_surface.num_points = jdx.
CopyLoop ==
    /\ poly_list.pc = "copy"
    /\ poly_list.j < poly_list.winding_count
    /\ \E taken \in {poly_list.j \in poly_list.fan_mask} :
          poly_list' =
             [poly_list EXCEPT
                 !.point_indices[poly_list.jdx + 1] =
                     IF taken THEN poly_list.temp_indices[poly_list.j + 1] ELSE @,
                 !.jdx = IF taken THEN @ + 1 ELSE @,
                 !.j = @ + 1,
                 !.num_points = IF poly_list.j + 1 < poly_list.winding_count THEN @
                                ELSE IF taken THEN poly_list.jdx + 1 ELSE poly_list.jdx,
                 !.pc = IF poly_list.j + 1 < poly_list.winding_count THEN "copy" ELSE "done"]
    /\ UNCHANGED <<exportVars, clipVars, buildVars, ratingVars, ioVars, exporting, progressVars>>

NextPolyList == OddLoop \/ EvenLoop \/ CopyLoop

SpecPolyList == InitPolyList /\ [][NextPolyList]_vars

\* The k-th position of the zig-zag order of a winding of n points: the
\* odd positions 1, 3, 5, ... upwards, then the even ones down to 0.
ZigZag(n, k) ==
    IF k <= n \div 2 THEN 2 * k - 1
    ELSE LastEven(n) - 2 * (k - (n \div 2) - 1)

\* C25: for a winding of n points with a full fan mask the points are taken
\* in the zig-zag order, the odd positions upwards and then the even
\* positions downwards, which uses each of the positions 0..n-1 once.
C25_ZigZagIsAPermutation ==
    poly_list.pc = "done" =>
        /\ poly_list.num_points = poly_list.winding_count
        /\ {poly_list.point_indices[k] : k \in 1..poly_list.num_points}
              = 0..(poly_list.winding_count - 1)
        /\ \A k \in 1..poly_list.num_points :
              poly_list.point_indices[k] = ZigZag(poly_list.winding_count, k)

\* --------------------------------------------- ConsoleProgressListener
\* The build thread calls progress, which sends the event down the channel;
\* the thread started by init receives the events one by one and drives the
\* bars.  listener holds the channel, the clock read by Instant::now(), in
\* milliseconds, the bars of progress_types, what the build has still to
\* send, and the event the thread handled last.

\* The number of groups or planes of a build: the total of its events.
MaxTotal == 3

\* The clock stops here; it moves in steps of TickMs.
MaxClock == 250

TickMs == 50

\* The window of the throttle: duration_since(last_updated).as_millis() < 100.
THROTTLE_MS == 100

\* The statuses the build reports, with the status of the finished bar.
FinishStatus ==
    [status \in {"Exporting \"convex\" hulls", "Building BSP"} |->
        IF status = "Building BSP" THEN "Built BSP" ELSE "Exported \"convex\" hulls"]

Statuses == DOMAIN FinishStatus

\* No entry of progress_types.
NoBar == [present |-> FALSE, length |-> 0, position |-> 0, message |-> "",
          finished |-> FALSE, last_updated |-> 0]

InitProgress ==
    /\ builder = DIFBuilder_new(TRUE)
    /\ twin = DIFBuilder_new(TRUE)
    /\ calls = <<>>
    /\ brush = <<>>
    /\ clips = <<>>
    /\ NoBuild
    /\ NoRating
    /\ NoIO
    /\ NoHull
    /\ \E totals \in [Statuses -> 1..MaxTotal] :
          listener = [pc |-> "running", channel |-> <<>>, now |-> 0,
                      progress_types |-> [status \in Statuses |-> NoBar],
                      total |-> totals,
                      current |-> [status \in Statuses |-> 0],
                      last |-> [outcome |-> "none"]]

\* ProgressEventListener::progress, called by export_brushes with
\* (i + 1, grouped.len()) and by build_bsp with (used_planes.len(),
\* plane_list.len()): the event is sent to the thread.
progress(status) ==
    /\ listener.pc = "running"
    /\ listener.current[status] < listener.total[status]
    /\ listener' =
          [listener EXCEPT
              !.current[status] = @ + 1,
              !.channel = Append(@, [stop |-> FALSE,
                                     current |-> listener.current[status] + 1,
                                     total |-> listener.total[status],
                                     status |-> status,
                                     finish_status |-> FinishStatus[status]])]
    /\ UNCHANGED <<exportVars, clipVars, buildVars, ratingVars, ioVars, hullVars>>

\* ConsoleProgressListener::stop: the sentinel is sent once the build has
\* reported everything.
stop ==
    /\ listener.pc = "running"
    /\ \A status \in Statuses : listener.current[status] = listener.total[status]
    /\ \A i \in 1..Len(listener.channel) : ~listener.channel[i].stop
    /\ listener' =
          [listener EXCEPT
              !.channel = Append(@, [stop |-> TRUE, current |-> 0, total |-> 0,
                                     status |-> "", finish_status |-> ""])]
    /\ UNCHANGED <<exportVars, clipVars, buildVars, ratingVars, ioVars, hullVars>>

\* Time passes.
Tick ==
    /\ listener.pc = "running"
    /\ listener.now + TickMs <= MaxClock
    /\ listener' = [listener EXCEPT !.now = @ + TickMs]
    /\ UNCHANGED <<exportVars, clipVars, buildVars, ratingVars, ioVars, hullVars>>

\* The bar after an update that is not skipped.
Updated(event, recvtime) ==
    [present |-> TRUE, length |-> event.total, position |-> event.current,
     message |-> IF event.current = event.total THEN event.finish_status
                 ELSE event.status,
     finished |-> event.current = event.total, last_updated |-> recvtime]

\* The bar the first event of a status adds to progress_types.
Inserted(event, recvtime) ==
    [present |-> TRUE, length |-> event.total, position |-> event.current,
     message |-> event.status, finished |-> FALSE, last_updated |-> recvtime]

\* One turn of the loop of the thread on the event received.
Handled(event, bar, recvtime) ==
    IF event.stop THEN [outcome |-> "stopped", bar |-> bar]
    ELSE IF event.total = 0 THEN [outcome |-> "printed", bar |-> bar]
    ELSE IF bar.present
    THEN (IF recvtime - bar.last_updated < THROTTLE_MS /\ event.total # event.current
          THEN [outcome |-> "skipped", bar |-> bar]
          ELSE [outcome |-> "applied", bar |-> Updated(event, recvtime)])
    ELSE [outcome |-> "inserted", bar |-> Inserted(event, recvtime)]

\* The bar of the status of an event; the sentinel has none.
BarOf(event) ==
    IF event.status \in Statuses THEN listener.progress_types[event.status] ELSE NoBar

\* receiver.recv() and the body of the loop.
Receive ==
    /\ listener.pc = "running"
    /\ listener.channel # <<>>
    /\ \E event \in {Head(listener.channel)} :
          \E handled \in {Handled(event, BarOf(event), listener.now)} :
             listener' =
                [listener EXCEPT
                    !.channel = Tail(@),
                    !.pc = IF event.stop THEN "stopped" ELSE @,
                    !.progress_types =
                        IF event.status \in Statuses
                        THEN [@ EXCEPT ![event.status] = handled.bar]
                        ELSE @,
                    !.last = [outcome |-> handled.outcome, event |-> event,
                              waited |-> listener.now - BarOf(event).last_updated]]
    /\ UNCHANGED <<exportVars, clipVars, buildVars, ratingVars, ioVars, hullVars>>

NextProgress ==
    \/ \E status \in Statuses : progress(status)
    \/ stop
    \/ Tick
    \/ Receive

SpecProgress == InitProgress /\ [][NextProgress]_vars

\* The thread has just handled an event of a bar.
HandledUpdate ==
    /\ listener.pc = "running"
    /\ listener.last.outcome \in {"skipped", "applied", "inserted"}

\* C29: an update is skipped only if it comes less than 100 ms after the
\* last update applied for its status and its current is not its total;
\* every event whose current is its total is applied and leaves the bar of
\* its status finished with finish_status, the first event of a status
\* included.
C29_FinishIsAlwaysApplied ==
    HandledUpdate =>
        /\ listener.last.outcome = "skipped" =>
              /\ listener.last.waited < THROTTLE_MS
              /\ listener.last.event.current # listener.last.event.total
        /\ listener.last.event.current = listener.last.event.total =>
              /\ listener.last.outcome # "skipped"
              /\ listener.progress_types[listener.last.event.status].finished
              /\ listener.progress_types[listener.last.event.status].message
                    = listener.last.event.finish_status

\* ------------------------------------- export_convex_hull, hull by hull
\* export_brushes exports the groups of group_polys one after the other.
\* exporting holds the locals of export_brushes and export_convex_hull: the
\* groups, the group being exported, its ConvexHull record, its local
\* points, its hull polys and the position i of the loop over the exported
\* points.  pc is "begin" before a hull, "emit" in the loop over the points,
\* "failed" after a failed assertion and "done" after the last hull.

\* Two faces of a corner that share an edge.
Corner ==
    << Tri(Pt(0, 0, 0), Pt(1, 0, 0), Pt(0, 1, 0), Pt(0, 0, 1), "Default"),
       Tri(Pt(0, 0, 0), Pt(0, 0, 1), Pt(1, 0, 0), Pt(0, 1, 0), "Default") >>

\* The meshes whose hulls are exported: one triangle, one triangle of the
\* material NULL, the corner, two and three triangles that share no vertex,
\* the sheet and the tetrahedron.
HullMeshes ==
    {SubSeq(Crossing, 1, 1), SubSeq(Crossing, 2, 2), Corner, SubSeq(Crossing, 1, 2),
     Crossing, Sheet, Tetrahedron}

\* The loop over the vertices vs[k..] that fills local_hull_point_map and
\* local_hull_points: a vertex is entered under the next index unless the
\* map holds a point equal to it.
RECURSIVE LocalHullPoints(_, _, _)
LocalHullPoints(vs, k, map) ==
    IF k > Len(vs) THEN map
    ELSE LocalHullPoints(vs, k + 1,
            IF PointMapFind(map, vs[k]) # {} THEN map
            ELSE Append(map, [key |-> vs[k], val |-> Len(map)]))

\* local_hull_point_map[&OrdPoint::from(p)]
LocalIndex(map, p) == map[MapFirst(PointMapFind(map, p))].val

\* hull_polys: the local points of every face and the plane index that
\* export_surface or export_null_surface entered in face_to_plane.
HullPolys(b, ts, map) ==
    SubSeq([k \in 1..Len(ts) |->
               [points |-> <<LocalIndex(map, ts[k].verts[1]),
                             LocalIndex(map, ts[k].verts[2]),
                             LocalIndex(map, ts[k].verts[3])>>,
                plane_index |-> b.face_to_plane[MapFirst(FaceFind(b.face_to_plane,
                                                                 ts[k].id))].val]],
           1, Len(ts))

\* The polys, counted from 0, that contain the point i, in their order.
RECURSIVE PolysContaining(_, _, _)
PolysContaining(hull_polys, i, j) ==
    IF j >= Len(hull_polys) THEN <<>>
    ELSE (IF \E c \in 1..3 : hull_polys[j + 1].points[c] = i THEN <<j>> ELSE <<>>)
             \o PolysContaining(hull_polys, i, j + 1)

\* v, n times.
Repeated(v, n) == SubSeq([k \in 1..n |-> v], 1, n)

\* new_indices: for every poly j and every emitted poly other than j on the
\* plane of j, j is pushed unless it is emitted already.
RECURSIVE NewIndices(_, _, _)
NewIndices(hull_polys, emit_poly_indices, j) ==
    IF j >= Len(hull_polys) THEN <<>>
    ELSE (IF \E e \in 1..Len(emit_poly_indices) : emit_poly_indices[e] = j THEN <<>>
          ELSE Repeated(j, Cardinality(
                   {e \in 1..Len(emit_poly_indices) :
                       hull_polys[emit_poly_indices[e] + 1].plane_index
                           = hull_polys[j + 1].plane_index})))
             \o NewIndices(hull_polys, emit_poly_indices, j + 1)

\* emit_poly_indices for the point i.
EmitPolyIndices(hull_polys, i) ==
    PolysContaining(hull_polys, i, 0)
        \o NewIndices(hull_polys, PolysContaining(hull_polys, i, 0), 0)

\* The order in which a HashSet hands out its members changes from one run
\* to the next; the orders taken here are the ascending one and its
\* reverse.
Reverse(s) == SubSeq([k \in 1..Len(s) |-> s[Len(s) + 1 - k]], 1, Len(s))

Drained(S, reversed) == IF reversed THEN Reverse(Ascending(S)) ELSE Ascending(S)

\* The edges of a poly as (first, last) with first <= last, coded as
\* 256 * first + last.
PolyEdges(points) ==
    {256 * SetMin({points[c], points[(c % 3) + 1]}) + SetMax({points[c], points[(c % 3) + 1]})
        : c \in 1..3}

\* The position of a point in emit_points, from 0.
PositionIn(emit_points, point) ==
    (CHOOSE k \in 1..Len(emit_points) : emit_points[k] = point) - 1

\* The part of the emit string written for the polys from position k on.
RECURSIVE EmitPolyBytes(_, _, _, _)
EmitPolyBytes(hull_polys, emit_poly_indices, emit_points, k) ==
    IF k > Len(emit_poly_indices) THEN <<>>
    ELSE <<3, emit_poly_indices[k]>>
            \o [c \in 1..3 |->
                   PositionIn(emit_points, hull_polys[emit_poly_indices[k] + 1].points[c])]
            \o EmitPolyBytes(hull_polys, emit_poly_indices, emit_points, k + 1)

RECURSIVE EmitEdgeBytes(_, _)
EmitEdgeBytes(emit_edges, k) ==
    IF k > Len(emit_edges) THEN <<>>
    ELSE <<emit_edges[k] \div 256, emit_edges[k] % 256>> \o EmitEdgeBytes(emit_edges, k + 1)

\* The emit string of the polys emit_poly_indices.
EmitString(hull_polys, emit_poly_indices, emit_points, emit_edges) ==
    <<Len(emit_points)>> \o emit_points
        \o <<Len(emit_edges)>> \o EmitEdgeBytes(emit_edges, 1)
        \o <<Len(emit_poly_indices)>>
        \o EmitPolyBytes(hull_polys, emit_poly_indices, emit_points, 1)

\* The points and the edges of the polys emit_poly_indices.
EmitPoints(hull_polys, emit_poly_indices) ==
    {hull_polys[emit_poly_indices[e] + 1].points[c] :
        e \in 1..Len(emit_poly_indices), c \in 1..3}

EmitEdges(hull_polys, emit_poly_indices) ==
    UNION {PolyEdges(hull_polys[emit_poly_indices[e] + 1].points) :
              e \in 1..Len(emit_poly_indices)}

InitHull ==
    /\ \E mb_only \in BOOLEAN : builder = DIFBuilder_new(mb_only)
    /\ twin = DIFBuilder_new(TRUE)
    /\ calls = <<>>
    /\ brush = <<>>
    /\ clips = <<>>
    /\ pc = "new"
    /\ input \in HullMeshes
    /\ split_method = "Fast"
    /\ MB_ONLY = TRUE
    /\ bsp = NoTree
    /\ rerun = NoTree
    /\ NoRating
    /\ NoIO
    /\ NoHull
    /\ NoProgress

\* build up to the loop of export_brushes: the bounding volumes and the
\* groups.
BeginExport ==
    /\ pc = "new"
    /\ input = <<>>
    /\ builder' = [builder EXCEPT
                      !.interior.bounding_box = Padded(get_bounding_box(builder.brushes)),
                      !.interior.bounding_sphere = get_bounding_sphere(builder.brushes)]
    /\ exporting' = [pc |-> "begin", grouped |-> group_polys(builder), group |-> 1]
    /\ pc' = "hulls"
    /\ UNCHANGED <<twin, calls, clipVars, input, split_method, MB_ONLY, bsp, rerun,
                   ratingVars, ioVars, poly_list, progressVars>>

\* The builder after the exports of export_convex_hull: r is the run of
\* export_point over the 3n vertices, export_plane over the n faces and
\* export_surface over the n faces.
HullExported(n, r) ==
    [r.b EXCEPT
        !.interior.hull_indices = @ \o SubSeq(r.ret, 1, 3 * n),
        !.interior.poly_list_point_indices =
            IF r.b.mb_only THEN @ ELSE @ \o SubSeq(r.ret, 1, 3 * n),
        !.interior.poly_list_plane_indices =
            IF r.b.mb_only THEN @ ELSE @ \o SubSeq(r.ret, 3 * n + 1, 4 * n),
        !.interior.hull_plane_indices =
            IF r.b.mb_only THEN @ ELSE @ \o SubSeq(r.ret, 3 * n + 1, 4 * n),
        !.interior.hull_surface_indices = @ \o SubSeq(r.ret, 4 * n + 1, 5 * n)]

\* export_convex_hull of the next group, up to the loop over the exported
\* points.
BeginHull ==
    /\ exporting.pc = "begin"
    /\ exporting.group <= Len(exporting.grouped)
    /\ \E ts \in {GroupTriangles(builder, exporting.grouped[exporting.group])} :
       \E r \in {ExportAll(ExportAll(ExportAll(Start(builder), "point", FlatVerts(ts),
                                               1, 3 * Len(ts)),
                                     "plane", ts, 1, Len(ts)),
                           "surface", ts, 1, Len(ts))} :
       \E map \in {LocalHullPoints(FlatVerts(ts), 1, <<>>)} :
          /\ builder' = HullExported(Len(ts), r)
          /\ exporting' =
                [pc |-> "emit", grouped |-> exporting.grouped, group |-> exporting.group,
                 hull |-> HullRecord(builder, ts,
                                     from_vertices(FlatVerts(ts), 3 * Len(ts))),
                 hull_count |-> 3 * Len(ts),
                 local_hull_points |-> Len(map),
                 hull_polys |-> HullPolys(r.b, ts, map),
                 emit_start |-> Len(builder.interior.hull_emit_string_indices),
                 i |-> 0]
    /\ UNCHANGED <<twin, calls, clipVars, buildVars, ratingVars, ioVars, poly_list,
                   progressVars>>

\* One turn of the loop over hull_exported_points: nothing for a builder
\* with mb_only set, the emit string of the point i otherwise, and the
\* failed assertion when no poly is emitted.
EmitStep ==
    /\ exporting.pc = "emit"
    /\ exporting.i < exporting.hull_count
    /\ \E emit_poly_indices \in {EmitPolyIndices(exporting.hull_polys, exporting.i)} :
          IF builder.mb_only
          THEN /\ exporting' = [exporting EXCEPT !.i = @ + 1]
               /\ UNCHANGED builder
          ELSE IF Len(emit_poly_indices) = 0
          THEN /\ exporting' = [exporting EXCEPT !.pc = "failed"]
               /\ UNCHANGED builder
          ELSE \E reversed \in BOOLEAN :
               \E r \in {export_emit_string(builder,
                            EmitString(exporting.hull_polys, emit_poly_indices,
                                       Drained(EmitPoints(exporting.hull_polys,
                                                          emit_poly_indices), reversed),
                                       Drained(EmitEdges(exporting.hull_polys,
                                                         emit_poly_indices), reversed)))} :
                  /\ builder' = [r.b EXCEPT
                                    !.interior.hull_emit_string_indices = Append(@, r.ret)]
                  /\ exporting' = [exporting EXCEPT !.i = @ + 1]
    /\ UNCHANGED <<twin, calls, clipVars, buildVars, ratingVars, ioVars, poly_list,
                   progressVars>>

\* self.interior.convex_hulls.push(hull), and the next group.
EndHull ==
    /\ exporting.pc = "emit"
    /\ exporting.i = exporting.hull_count
    /\ builder' = [builder EXCEPT !.interior.convex_hulls = Append(@, exporting.hull)]
    /\ exporting' = [pc |-> IF exporting.group < Len(exporting.grouped) THEN "begin"
                            ELSE "done",
                     grouped |-> exporting.grouped, group |-> exporting.group + 1]
    /\ UNCHANGED <<twin, calls, clipVars, buildVars, ratingVars, ioVars, poly_list,
                   progressVars>>

NextHull == AddTriangle \/ BeginExport \/ BeginHull \/ EmitStep \/ EndHull

SpecHull == InitHull /\ [][NextHull]_vars

\* C24: with mb_only not set export_convex_hull writes one emit string for
\* every local point of the hull, each from a set of polys that is not
\* empty, and no assertion fails, whatever the group of triangles.
C24_EmitStringPerLocalPoint ==
    /\ exporting.pc # "failed"
    /\ (exporting.pc = "emit" /\ ~builder.mb_only /\ exporting.i = exporting.hull_count)
          => Len(builder.interior.hull_emit_string_indices) - exporting.emit_start
                = exporting.local_hull_points

\* ------------------------------------------------------ the 256 coord bins
\* #[derive(Writable)] for CoordBin: bin_start (CoordBinIndex, a u32) and
\* bin_count (u32), in the order of the fields.
CoordBin_write(bin) == put_u32_le(bin.bin_start) \o put_u32_le(bin.bin_count)

\* #[derive(Readable)] for CoordBin: the two fields in order, the first
\* error returned.
CoordBin_read(from) ==
    IF u32_read(from).state = "err" THEN u32_read(from)
    ELSE IF u32_read(u32_read(from).rest).state = "err"
    THEN u32_read(u32_read(from).rest)
    ELSE Ok([bin_start |-> u32_read(from).value,
             bin_count |-> u32_read(u32_read(from).rest).value],
            u32_read(u32_read(from).rest).rest)

\* count turns of `coord_bins.push(CoordBin::read(from, version)?)` after
\* the turns that gave acc: the bins pushed so far and the stream behind
\* them, or the error that ended the loop.
RECURSIVE ReadBins(_, _)
ReadBins(acc, count) ==
    IF acc.state = "err" \/ count = 0 THEN acc
    ELSE IF count = 1
    THEN (IF CoordBin_read(acc.rest).state = "err"
          THEN CoordBin_read(acc.rest)
          ELSE Ok(Append(acc.value, CoordBin_read(acc.rest).value),
                  CoordBin_read(acc.rest).rest))
    ELSE ReadBins(ReadBins(acc, count \div 2), count - (count \div 2))

\* Interior::read with a u32 count in front of the bins, as read_vec reads
\* the other lists.
Interior_read_coord_bins_counted(from) ==
    IF u32_read(from).state = "err" THEN u32_read(from)
    ELSE ReadBins(Ok(<<>>, u32_read(from).rest), u32_read(from).value)

\* Interior::read, the coord bins: `for _ in 0..256`, no count is read.
Interior_read_coord_bins(from) == ReadBins(Ok(<<>>, from), 256)

\* Interior::write, the coord bins: `for bin in &self.coord_bins`, the
\* bins lo .. hi of the vector; no count is written.
RECURSIVE WriteBins(_, _, _)
WriteBins(coord_bins, lo, hi) ==
    IF lo > hi THEN <<>>
    ELSE IF lo = hi THEN CoordBin_write(coord_bins[lo])
    ELSE WriteBins(coord_bins, lo, (lo + hi) \div 2)
             \o WriteBins(coord_bins, ((lo + hi) \div 2) + 1, hi)

Interior_write_coord_bins(coord_bins) == WriteBins(coord_bins, 1, Len(coord_bins))

\* The meshes of the runs: none, one and two triangles, and the wedge.
BinMeshes == {<<>>, SubSeq(Crossing, 1, 1), SubSeq(Crossing, 1, 2), Wedge}

\* What follows the bins in the stream: nothing, or as many bytes as 256
\* bins take.
BinTails == {<<>>, [k \in 1..2048 |-> k % 256]}

\* Where the stream is cut.
BinCuts == {0, 4, 8, 2040, 2047, 2048, 2052}

InitBins ==
    /\ builder = DIFBuilder_new(TRUE)
    /\ twin = DIFBuilder_new(TRUE)
    /\ calls = <<>>
    /\ brush = <<>>
    /\ clips = <<>>
    /\ pc = "new"
    /\ input \in BinMeshes
    /\ split_method \in {"Fast", "Exhaustive"}
    /\ MB_ONLY = TRUE
    /\ bsp = NoTree
    /\ rerun = NoTree
    /\ NoRating
    /\ NoIO
    /\ NoHull
    /\ NoProgress

\* The coord bins of the builder's interior, as it is now, are written by
\* Interior::write in front of the rest of the stream.
WriteCoordBins ==
    /\ got.state = "none"
    /\ \E tail \in BinTails :
          /\ written' = [kind |-> "CoordBins",
                         coord_bins |-> builder.interior.coord_bins, tail |-> tail]
          /\ wire' = Interior_write_coord_bins(builder.interior.coord_bins) \o tail
    /\ got' = [state |-> "unread"]
    /\ UNCHANGED <<exportVars, clipVars, buildVars, ratingVars, hullVars, progressVars>>

\* The stream ends early.
TruncateBins ==
    /\ got.state = "unread"
    /\ written.kind = "CoordBins"
    /\ \E n \in {c \in BinCuts : c < Len(wire)} : wire' = SubSeq(wire, 1, n)
    /\ got' = [state |-> "cut"]
    /\ UNCHANGED <<exportVars, clipVars, buildVars, ratingVars, hullVars, progressVars, written>>

\* Interior::read reaches the coord bins.
ReadCoordBins ==
    /\ got.state \in {"unread", "cut"}
    /\ written.kind = "CoordBins"
    /\ got' = Read(Interior_read_coord_bins(wire))
    /\ UNCHANGED <<exportVars, clipVars, buildVars, ratingVars, hullVars, progressVars, written, wire>>

\* The builder runs until its interior is handed to the writer.
BuilderStep ==
    /\ got.state = "none"
    /\ (AddTriangle \/ BeginBuild \/ SplitStep \/ EndBuild)

NextBins == BuilderStep \/ WriteCoordBins \/ TruncateBins \/ ReadCoordBins

SpecBins == InitBins /\ [][NextBins]_vars

\* C7 as stated: the builder's interior has 256 coord bins in every state
\* from DIFBuilder::new on, and so has every Interior the reader returns.
C7_AlwaysExactly256Bins ==
    /\ Len(builder.interior.coord_bins) = 256
    /\ (written.kind = "CoordBins" /\ got.state = "ok")
          => Len(got.result.value) = 256

\* C7, amended: the builder's interior has no coord bin until build has
\* run export_coord_bins and 256 in the Interior build returns; every
\* Interior the reader returns has 256.
C7_ReturnedInteriorsHave256Bins ==
    /\ Len(builder.interior.coord_bins) = (IF pc = "done" THEN 256 ELSE 0)
    /\ (written.kind = "CoordBins" /\ got.state = "ok")
          => Len(got.result.value) = 256

\* build has returned an Interior with a hull, its bins were written and
\* the reader has returned them.
C7_Witness ==
    /\ pc = "done"
    /\ Len(builder.interior.convex_hulls) > 0
    /\ written.kind = "CoordBins"
    /\ got.state = "ok"
    /\ got.result.value = builder.interior.coord_bins

\* ------------------------------------- a built interior written and read
\* f32::write (put_f32_le): the bits of the f32 as a u32, sign bit 31, the
\* exponent biased by 127 over the 23 bits below the leading one.
f32_to_bits(a) ==
    (IF a[2] = 0 THEN 0 ELSE ((a[3] + 150) * 8388608) + (a[2] - 8388608))
        + (IF a[1] = 1 THEN NULL_BIT ELSE 0)

\* The Surface of the builder as Surface::write takes its fields; the two
\* f32 of the light map are their bits.
WireSurface(surface) ==
    [surface EXCEPT
        !.light_map.tex_gen_x_distance = f32_to_bits(@),
        !.light_map.tex_gen_y_distance = f32_to_bits(@)]

WireSurfaces(surfaces) == [k \in 1..Len(surfaces) |-> WireSurface(surfaces[k])]

\* write_vec_fn::<LMapIndex, u8> with convert_fn |i| *i.inner() as u8: the
\* u32 length and one byte for each index.
write_vec_fn_u8(vec) ==
    put_u32_le(Len(vec)) \o [k \in 1..Len(vec) |-> vec[k] % 256]

\* read_vec::<LMapIndex, u8> with compare_func |_, _| true: the u32 length,
\* whose bit 0x80000000 announces a u8 parameter, then length times
\* u8::read, which fails once the stream is shorter than the length.
ReadBytes(from, length) ==
    IF Len(from) < length THEN Err("EOF")
    ELSE Ok(SubSeq(from, 1, length), Advance(from, length))

read_vec_u8(from) ==
    IF u32_read(from).state = "err" THEN u32_read(from)
    ELSE IF u32_read(from).value < 0
    THEN (IF u8_read(u32_read(from).rest).state = "err"
          THEN u8_read(u32_read(from).rest)
          ELSE ReadBytes(u8_read(u32_read(from).rest).rest,
                         u32_read(from).value - NULL_BIT))
    ELSE ReadBytes(u32_read(from).rest, u32_read(from).value)

\* Writable for NullSurface at an interior version below 13, and for the
\* Vec of them.
NullSurface_write(self) ==
    put_u32_le(self.winding_start) \o put_u16_le(self.plane_index)
        \o put_u8(self.surface_flags) \o put_u8(self.winding_count)

RECURSIVE NullSurfaces_write(_, _)
NullSurfaces_write(vec, k) ==
    IF k > Len(vec) THEN <<>>
    ELSE NullSurface_write(vec[k]) \o NullSurfaces_write(vec, k + 1)

\* Interior::write for engine MBG and interior 0, from the surfaces to the
\* null surfaces.
Interior_write_surfaces(it) ==
    Surfaces_write(WireSurfaces(it.surfaces), 0, "MBG")
        \o write_vec_fn_u8(it.normal_lmap_indices)
        \o write_vec_fn_u8(it.alarm_lmap_indices)
        \o put_u32_le(Len(it.null_surfaces)) \o NullSurfaces_write(it.null_surfaces, 1)

\* Interior::read for interior 0: normal_lmap_indices and
\* alarm_lmap_indices, both read as bytes.
Interior_read_lmaps(from) ==
    IF read_vec_u8(from).state = "err" THEN read_vec_u8(from)
    ELSE IF read_vec_u8(read_vec_u8(from).rest).state = "err"
    THEN read_vec_u8(read_vec_u8(from).rest)
    ELSE Ok([normal_lmap_indices |-> read_vec_u8(from).value,
             alarm_lmap_indices |-> read_vec_u8(read_vec_u8(from).rest).value],
            read_vec_u8(read_vec_u8(from).rest).rest)

\* Interior::read from the surfaces to the alarm_lmap_indices, in a file of
\* interior version 0 read by Dif::from_bytes, whose Version::new() has the
\* engine Unknown.
Interior_read_from_surfaces(from, lens) ==
    Only({IF s.result.state = "err" THEN [result |-> s.result, engine |-> s.engine]
          ELSE [result |->
                   Only({IF l.state = "err" THEN l
                         ELSE Ok([surfaces |-> s.result.value,
                                  normal_lmap_indices |-> l.value.normal_lmap_indices,
                                  alarm_lmap_indices |-> l.value.alarm_lmap_indices],
                                 l.rest) :
                            l \in {Interior_read_lmaps(s.result.rest)}}),
                engine |-> s.engine] :
             s \in {Interior_read_surfaces(from, 0, "Unknown", lens)}})

\* The lengths Surface::read is given: the lists in front of the surfaces,
\* as the writer wrote them.
LensOf(it) ==
    [indices |-> Len(it.indices), planes |-> Len(it.planes),
     material_names |-> Len(it.material_names), tex_gen_eqs |-> Len(it.tex_gen_eqs)]

\* The meshes of the runs: one triangle, two triangles, two triangles and
\* one of the material NULL between them, and the wedge of four.
ReadBackMeshes ==
    {SubSeq(Crossing, 1, 1), <<Crossing[1], Crossing[3]>>, Crossing, Wedge}

InitReadBack ==
    /\ builder = DIFBuilder_new(TRUE)
    /\ twin = DIFBuilder_new(TRUE)
    /\ calls = <<>>
    /\ brush = <<>>
    /\ clips = <<>>
    /\ pc = "new"
    /\ input \in ReadBackMeshes
    /\ split_method \in {"Fast", "Exhaustive"}
    /\ MB_ONLY = TRUE
    /\ bsp = NoTree
    /\ rerun = NoTree
    /\ NoRating
    /\ NoIO
    /\ NoHull
    /\ NoProgress

\* The Interior build has returned is written with engine MBG, interior 0.
WriteInterior ==
    /\ got.state = "none"
    /\ pc = "done"
    /\ written' = [kind |-> "Interior",
                   surfaces |-> WireSurfaces(builder.interior.surfaces),
                   normal_lmap_indices |-> builder.interior.normal_lmap_indices,
                   alarm_lmap_indices |-> builder.interior.alarm_lmap_indices]
    /\ wire' = Interior_write_surfaces(builder.interior)
    /\ got' = [state |-> "unread"]
    /\ UNCHANGED <<exportVars, clipVars, buildVars, ratingVars, hullVars, progressVars>>

\* Dif::from_bytes reads the stream.
ReadInterior ==
    /\ got.state \in {"unread", "cut"}
    /\ written.kind = "Interior"
    /\ \E read \in {Interior_read_from_surfaces(wire, LensOf(builder.interior))} :
           got' = [state |-> read.result.state, cut |-> got.state = "cut",
                   result |-> read.result, engine |-> read.engine]
    /\ UNCHANGED <<exportVars, clipVars, buildVars, ratingVars, hullVars, progressVars, written, wire>>

NextReadBack == BuilderStep \/ WriteInterior \/ Truncate \/ ReadInterior

SpecReadBack == InitReadBack /\ [][NextReadBack]_vars

\* C2: the Interior built from a single triangle, written with engine MBG
\* and interior 0 and read by a reader that starts with the engine Unknown,
\* is read back with the surfaces, the normal_lmap_indices and the
\* alarm_lmap_indices that were written.
C2_SingleTriangleReadsBack ==
    (/\ written.kind = "Interior"
     /\ got.state \in {"ok", "err"}
     /\ ~got.cut
     /\ Len(builder.brushes) = 1)
        => /\ got.state = "ok"
           /\ got.result.value.surfaces = written.surfaces
           /\ got.result.value.normal_lmap_indices = written.normal_lmap_indices
           /\ got.result.value.alarm_lmap_indices = written.alarm_lmap_indices

\* ------------------------------------------- a Dif read, written and read
\* The records of the file are read field by field: acc is Ok(record so
\* far, stream behind it) or the error that ended the read, and the next
\* field is read from acc.rest and put under key.
Put(a, key, r) ==
    Only({IF x.state # "ok" THEN x
          ELSE Ok([k \in DOMAIN a.value \cup {key} |->
                      IF k = key THEN x.value ELSE a.value[k]], x.rest) :
             x \in {r}})

\* String::read for the field key.
AddString(acc, key) ==
    Only({IF a.state # "ok" THEN a ELSE Put(a, key, String_read(a.rest)) :
             a \in {acc}})

\* words times f32::read or u32::read, kept as the u32 of their bits; the
\* first read that finds fewer than four bytes returns EOF.
ReadWords(from, words) ==
    IF Len(from) < 4 * words THEN Err("EOF")
    ELSE Ok([w \in 1..words |-> get_u32_le(SubSeq(from, (4 * w) - 3, 4 * w))],
            Advance(from, 4 * words))

\* Point3F::read for the field key: x, y, z.
AddPoint(acc, key) ==
    Only({IF a.state # "ok" THEN a ELSE Put(a, key, ReadWords(a.rest, 3)) :
             a \in {acc}})

\* The loop of read_vec for items of words times four bytes (Point3F,
\* PlaneF, PolyhedronEdge): length items, EOF once the stream is short.
ReadChunks(from, length, words) ==
    IF length = 0 THEN Ok(<<>>, from)
    ELSE IF length < 0 \/ Len(from) \div (4 * words) < length THEN Err("EOF")
    ELSE Ok([k \in 1..length |->
                ReadWords(Advance(from, 4 * words * (k - 1)), words).value],
            Advance(from, 4 * words * length))

\* Readable for Vec<T>, T of words times four bytes: the u32 length, whose
\* bit 0x80000000 announces a u8 parameter, and the items.
Vec_read_chunks(from, words) ==
    IF u32_read(from).state = "err" THEN u32_read(from)
    ELSE IF u32_read(from).value < 0
    THEN (IF u8_read(u32_read(from).rest).state = "err"
          THEN u8_read(u32_read(from).rest)
          ELSE ReadChunks(u8_read(u32_read(from).rest).rest,
                          u32_read(from).value - NULL_BIT, words))
    ELSE ReadChunks(u32_read(from).rest, u32_read(from).value, words)

AddChunks(acc, key, words) ==
    Only({IF a.state # "ok" THEN a ELSE Put(a, key, Vec_read_chunks(a.rest, words)) :
             a \in {acc}})

\* HashMap::insert.
Dictionary_insert(self, name, value) ==
    [k \in DOMAIN self \cup {name} |-> IF k = name THEN value ELSE self[k]]

\* The loop of Dictionary::read: length times a name and a value; a length
\* with bit 31 set is above every number of entries a stream can hold.
RECURSIVE ReadEntries(_, _, _)
ReadEntries(from, length, result) ==
    IF length = 0 THEN Ok(result, from)
    ELSE Only({IF entry.state # "ok" THEN entry
               ELSE ReadEntries(entry.rest, length - 1,
                                Dictionary_insert(result, entry.value.name,
                                                  entry.value.value)) :
                  entry \in {AddString(AddString(Ok(<<>>, from), "name"), "value")}})

\* Readable for Dictionary.
Dictionary_read(from) ==
    IF u32_read(from).state = "err" THEN u32_read(from)
    ELSE ReadEntries(u32_read(from).rest, u32_read(from).value, <<>>)

\* Writable for Dictionary: the u32 length and the entries in the order of
\* the HashMap, which is the one order there is for the maps of the runs
\* (they hold one entry at most).
RECURSIVE WriteEntries(_, _)
WriteEntries(self, names) ==
    IF names = {} THEN <<>>
    ELSE Only({String_write(name) \o String_write(self[name])
                   \o WriteEntries(self, names \ {name}) :
                  name \in {CHOOSE n \in names : TRUE}})

Dictionary_write(self) ==
    put_u32_le(Cardinality(DOMAIN self)) \o WriteEntries(self, DOMAIN self)

AddDictionary(acc, key) ==
    Only({IF a.state # "ok" THEN a ELSE Put(a, key, Dictionary_read(a.rest)) :
             a \in {acc}})

\* Readable for Trigger: name, datablock, properties, the three lists of
\* the polyhedron (kept beside the other fields) and offset.
Trigger_read(from) ==
    AddPoint(
        AddChunks(AddChunks(AddChunks(
            AddDictionary(AddString(AddString(Ok(<<>>, from), "name"), "datablock"),
                          "properties"),
            "point_list", 3), "plane_list", 4), "edge_list", 4),
        "offset")

\* The words of the items of a Vec, each written as four bytes.
RECURSIVE WriteWords(_, _)
WriteWords(words, k) ==
    IF k > Len(words) THEN <<>>
    ELSE put_u32_le(words[k]) \o WriteWords(words, k + 1)

RECURSIVE WriteChunks(_, _)
WriteChunks(vec, k) ==
    IF k > Len(vec) THEN <<>>
    ELSE WriteWords(vec[k], 1) \o WriteChunks(vec, k + 1)

\* Writable for Vec<T>: the u32 length and the items.
Vec_write_chunks(vec) == put_u32_le(Len(vec)) \o WriteChunks(vec, 1)

\* Writable for Trigger with version.engine as it is: the properties are
\* left out unless it is MBG.
Trigger_write(self, engine) ==
    String_write(self.name) \o String_write(self.datablock)
        \o (IF engine = "MBG" THEN Dictionary_write(self.properties) ELSE <<>>)
        \o Vec_write_chunks(self.point_list) \o Vec_write_chunks(self.plane_list)
        \o Vec_write_chunks(self.edge_list)
        \o WriteWords(self.offset, 1)

\* The loop of read_vec over Trigger::read.
RECURSIVE ReadTriggers(_, _, _)
ReadTriggers(from, length, result) ==
    IF length = 0 THEN Ok(result, from)
    ELSE Only({IF item.state # "ok" THEN item
               ELSE ReadTriggers(item.rest, length - 1, Append(result, item.value)) :
                  item \in {Trigger_read(from)}})

\* Readable for Vec<Trigger>.
Vec_read_triggers(from) ==
    IF u32_read(from).state = "err" THEN u32_read(from)
    ELSE IF u32_read(from).value < 0
    THEN (IF u8_read(u32_read(from).rest).state = "err"
          THEN u8_read(u32_read(from).rest)
          ELSE ReadTriggers(u8_read(u32_read(from).rest).rest,
                            u32_read(from).value - NULL_BIT, <<>>))
    ELSE ReadTriggers(u32_read(from).rest, u32_read(from).value, <<>>)

AddTriggers(acc, key) ==
    Only({IF a.state # "ok" THEN a ELSE Put(a, key, Vec_read_triggers(a.rest)) :
             a \in {acc}})

\* A record of a kind the runs have none of has been met: what the reader
\* does from there on is outside the model.
Beyond == [state |-> "beyond"]

\* Readable for Vec<T> where the runs hold no T (Interior,
\* InteriorPathFollower, ForceField, AISpecialNode, GameEntity): the
\* length, and no item.
Vec_read_none(from) ==
    IF u32_read(from).state = "err" THEN u32_read(from)
    ELSE IF u32_read(from).value # 0 THEN Beyond
    ELSE Ok(<<>>, u32_read(from).rest)

AddNone(acc, key) ==
    Only({IF a.state # "ok" THEN a ELSE Put(a, key, Vec_read_none(a.rest)) :
             a \in {acc}})

\* Dif::read: `if u32::read(from, version)? == 0 { None }`, else a
\* VehicleCollision.
VehicleCollision_read(from) ==
    IF u32_read(from).state = "err" THEN u32_read(from)
    ELSE IF u32_read(from).value # 0 THEN Beyond
    ELSE Ok("None", u32_read(from).rest)

AddVehicleCollision(acc, key) ==
    Only({IF a.state # "ok" THEN a ELSE Put(a, key, VehicleCollision_read(a.rest)) :
             a \in {acc}})

\* Dif::read: `if u32::read(from, version)? == 2` the game entities are
\* read, else there are none.
GameEntities_read(from) ==
    IF u32_read(from).state = "err" THEN u32_read(from)
    ELSE IF u32_read(from).value = 2 THEN Vec_read_none(u32_read(from).rest)
    ELSE Ok(<<>>, u32_read(from).rest)

AddGameEntities(acc, key) ==
    Only({IF a.state # "ok" THEN a ELSE Put(a, key, GameEntities_read(a.rest)) :
             a \in {acc}})

\* Dif::read: version.dif, which has to be 44, and the preview, a PNG that
\* is read and dropped.
Dif_read_header(from) ==
    IF u32_read(from).state = "err" THEN u32_read(from)
    ELSE IF u32_read(from).value # 44 THEN Err("Bad version")
    ELSE IF u8_read(u32_read(from).rest).state = "err"
    THEN u8_read(u32_read(from).rest)
    ELSE IF u8_read(u32_read(from).rest).value = 0
    THEN Ok(<<>>, u8_read(u32_read(from).rest).rest)
    ELSE Only({IF png.state # "ok" THEN png ELSE Ok(<<>>, png.rest) :
                  png \in {PNG_read(u8_read(u32_read(from).rest).rest, <<>>)}})

\* Readable for Dif.
Dif_read(from) ==
    AddGameEntities(AddVehicleCollision(
        AddNone(AddNone(AddNone(
            AddTriggers(AddNone(AddNone(Dif_read_header(from), "interiors"),
                                "sub_objects"),
                        "triggers"),
            "interior_path_followers"), "force_fields"), "ai_special_nodes"),
        "vehicle_collision"), "game_entities")

RECURSIVE WriteTriggers(_, _, _)
WriteTriggers(vec, k, engine) ==
    IF k > Len(vec) THEN <<>>
    ELSE Trigger_write(vec[k], engine) \o WriteTriggers(vec, k + 1, engine)

\* Dif::write from self.interiors on, for a Dif whose other lists are
\* empty and whose vehicle_collision is None.
Dif_write_lists(self, engine) ==
    put_u32_le(Len(self.interiors)) \o put_u32_le(Len(self.sub_objects))
        \o put_u32_le(Len(self.triggers)) \o WriteTriggers(self.triggers, 1, engine)
        \o put_u32_le(Len(self.interior_path_followers))
        \o put_u32_le(Len(self.force_fields))
        \o put_u32_le(Len(self.ai_special_nodes))
        \o put_u32_le(0)
        \o put_u32_le(0)
        \o put_u32_le(0)

\* Writable for Dif with version.dif = 44.
Dif_write(self, engine) ==
    put_u32_le(44) \o put_u8(0) \o Dif_write_lists(self, engine)

\* The triggers of the files: with and without a name, a property, a
\* point of the polyhedron; offset (0, 0, 0) or (1.4e-45, 0, 0), the f32
\* of the bits 1.
DifTriggers ==
    {[name |-> n, datablock |-> <<>>, properties |-> p, point_list |-> l,
      plane_list |-> <<>>, edge_list |-> <<>>, offset |-> o] :
        n \in {<<>>, <<97>>}, p \in {<<>>, (<<97>> :> <<98>>)},
        l \in {<<>>, << <<0, 1, 0>> >>}, o \in {<<0, 0, 0>>, <<1, 0, 0>>}}

\* The Difs of the files: no interior and up to two triggers.
Difs ==
    {[interiors |-> <<>>, sub_objects |-> <<>>, triggers |-> t,
      interior_path_followers |-> <<>>, force_fields |-> <<>>,
      ai_special_nodes |-> <<>>, vehicle_collision |-> "None",
      game_entities |-> <<>>] :
        t \in {<<>>} \cup {<<a>> : a \in DifTriggers}
                \cup {<<a, b>> : a, b \in DifTriggers}}

\* The preview of a file: none, or a PNG.
Previews == {<<>>, footer}

\* A file as an MBG writer lays it out: version 44, the preview, the lists
\* with the properties of every trigger, and an empty list of game
\* entities either announced by 2 or left out.
DifFile(dif, preview, entities) ==
    put_u32_le(44)
        \o (IF preview = <<>> THEN put_u8(0) ELSE put_u8(1) \o preview)
        \o put_u32_le(0) \o put_u32_le(0)
        \o put_u32_le(Len(dif.triggers)) \o WriteTriggers(dif.triggers, 1, "MBG")
        \o put_u32_le(0) \o put_u32_le(0) \o put_u32_le(0) \o put_u32_le(0)
        \o (IF entities THEN put_u32_le(2) \o put_u32_le(0) ELSE put_u32_le(0))
        \o put_u32_le(0)

InitDif ==
    /\ builder = DIFBuilder_new(TRUE)
    /\ twin = DIFBuilder_new(TRUE)
    /\ calls = <<>>
    /\ brush = <<>>
    /\ clips = <<>>
    /\ NoBuild
    /\ NoRating
    /\ NoHull
    /\ NoProgress
    /\ \E dif \in Difs, preview \in Previews, entities \in BOOLEAN :
          /\ written = [kind |-> "Dif", dif |-> dif]
          /\ wire = DifFile(dif, preview, entities)
    /\ got = [state |-> "unread"]

\* Dif::from_bytes(file): Version::new() has the engine Unknown, and no
\* interior is read that would set it.
FromBytes ==
    /\ written.kind = "Dif"
    /\ got.state = "unread"
    /\ got' = [state |-> "read", first |-> Dif_read(wire), engine |-> "Unknown"]
    /\ UNCHANGED <<exportVars, clipVars, buildVars, ratingVars, hullVars, progressVars, written, wire>>

\* dif.write(&mut bytes, &version) with the Dif and the Version that
\* from_bytes has returned.
WriteDif ==
    /\ written.kind = "Dif"
    /\ got.state = "read"
    /\ got.first.state = "ok"
    /\ wire' = Dif_write(got.first.value, got.engine)
    /\ got' = [got EXCEPT !.state = "rewritten"]
    /\ UNCHANGED <<exportVars, clipVars, buildVars, ratingVars, hullVars, progressVars, written>>

\* Dif::from_bytes of the bytes written.
FromBytesAgain ==
    /\ written.kind = "Dif"
    /\ got.state = "rewritten"
    /\ got' = [state |-> "reread", first |-> got.first, engine |-> got.engine,
               second |-> Dif_read(wire)]
    /\ UNCHANGED <<exportVars, clipVars, buildVars, ratingVars, hullVars, progressVars, written, wire>>

NextDif == FromBytes \/ WriteDif \/ FromBytesAgain

SpecDif == InitDif /\ [][NextDif]_vars

\* C1: a Dif that from_bytes has returned, written with the Version it
\* came with and read again, is read as an equal Dif.
C1_ReadWriteReadIsEqual ==
    (written.kind = "Dif" /\ got.state = "reread" /\ got.second.state # "beyond")
        => /\ got.second.state = "ok"
           /\ got.second.value = got.first.value

====
